---- MODULE Spec2Model ----
(***************************************************************************)
(* Model of python-geoaddress: the shared normalization and scoring engine *)
(* of GeoaddressProvider (src/src/geoaddress/providers/__init__.py) and    *)
(* the record pipeline of the vendor adapters built on it.                 *)
(*                                                                         *)
(* Python values are tagged records: None, Str(seq of code points),        *)
(* Num(fixed-point float), PyInt(integer), Dict(function from keys to      *)
(* values), List(sequence), Fn(name) for a callable, and ODict(sequence of *)
(* <<key, value>>) for a dict whose insertion order matters.  A str is a   *)
(* sequence of code points, each written as a short token ("a", "E^" for   *)
(* U+00C9, "^" for the combining acute U+0301).                            *)
(***************************************************************************)
EXTENDS Integers, Sequences, FiniteSets, TLC

VARIABLES
    text,           \* _normalize_string_for_comparison: the argument
    normalized1,    \* its result
    normalized2,    \* the result of normalizing normalized1 again
    strPc,          \* "idle" | "input" | "once" | "twice"
    confArgs,       \* _calculate_confidence: its arguments, a record
    confidence,     \* its result, or the exception it raised
    confPc,         \* "idle" | "input" | "done"
    relArgs,        \* _calculate_relevance: its arguments, a record
    relevance,      \* its result, or the exception it raised
    relPc,          \* "idle" | "input" | "done"
    mapArgs,        \* _normalize_from_mapping: its arguments, a record
    mapped,         \* its result, or the exception it raised
    mapPc,          \* "idle" | "input" | "done"
    distArgs,       \* _calculate_distance_km: two points A and B, a record
    distKm,         \* the distance from A to B
    distKmBack,     \* the distance from B to A
    distPc,         \* "idle" | "input" | "forth" | "back"
    provider,       \* the provider instance in use, by its name ("none": no instance)
    credential,     \* whether the instance was given its credential
    vendor,         \* what the vendor answers the instance's requests with
    now,            \* time.time(), in tenths of a second
    last_request_time,  \* self._last_request_time, in tenths of a second
    slept,          \* how long the last call slept in time.sleep, in tenths of a second
    call,           \* the call the caller made last: operation and arguments
    returned,       \* what that call did: an Outcome
    apiPc,          \* "idle" | "ready" (between calls) | "returned" (holding an Outcome)
    synchronized,   \* whether the callers of a shared instance take turns
    callers,        \* the callers of a shared instance: position and locals of each
    requested       \* the times of the requests the shared instance issued

strVars == <<text, normalized1, normalized2, strPc>>

confVars == <<confArgs, confidence, confPc>>

relVars == <<relArgs, relevance, relPc>>

mapVars == <<mapArgs, mapped, mapPc>>

distVars == <<distArgs, distKm, distKmBack, distPc>>

apiVars == <<provider, credential, vendor, now, last_request_time, slept, call, returned,
             apiPc>>

shareVars == <<synchronized, callers, requested>>

vars == <<text, normalized1, normalized2, strPc, confArgs, confidence, confPc,
          relArgs, relevance, relPc, mapArgs, mapped, mapPc,
          distArgs, distKm, distKmBack, distPc,
          provider, credential, vendor, now, last_request_time, slept, call, returned,
          apiPc, synchronized, callers, requested>>

(***************************************************************************)
(* Bounds of the model.                                                    *)
(***************************************************************************)
MaxTextLen == 3

\* The number of fields a mapping table holds, at most.
MaxMappingLen == 2

\* The number of items in a vendor's answer, at most.
MaxItems == 2

\* The clock stops MaxElapsed tenths of a second after the instance is made.
MaxElapsed == 1

(***************************************************************************)
(* Python values.                                                          *)
(***************************************************************************)
None == [none |-> TRUE]

Str(s) == [str |-> s]

\* A float or an int.  Floats are fixed point, in units of 1/FixedPoint.
Num(n) == [num |-> n]

\* An int, as an identifier is (place_id, osm_id).
PyInt(n) == [int |-> n]

Dict(f) == [dict |-> f]

List(s) == [list |-> s]

\* A callable, by name.
Fn(name) == [fn |-> name]

\* A dict in insertion order: the sequence of its <<key, value>> items.
ODict(items) == [items |-> items]

\* An exception leaving a function instead of a value.
Raise(exc) == [raise |-> exc]

IsStr(v) == DOMAIN v = {"str"}

IsNum(v) == DOMAIN v = {"num"}

IsInt(v) == DOMAIN v = {"int"}

IsDict(v) == DOMAIN v = {"dict"}

IsList(v) == DOMAIN v = {"list"}

callable(v) == DOMAIN v = {"fn"}

IsRaise(v) == DOMAIN v = {"raise"}

EmptyDict == Dict(<<>>)

\* dict.get(k) and dict.get(k, default)
GetOr(d, k, default) == IF k \in DOMAIN d.dict THEN d.dict[k] ELSE default

Get(d, k) == GetOr(d, k, None)

FixedPoint == 100 * 100

\* round(x, 2): to the nearest hundredth, ties to even.
Round2(x) ==
    LET step == FixedPoint \div 100
        q == x \div step
        r == x % step
    IN  IF 2 * r < step THEN q * step
        ELSE IF 2 * r > step THEN (q + 1) * step
        ELSE IF q % 2 = 0 THEN q * step ELSE (q + 1) * step

Min(a, b) == IF a <= b THEN a ELSE b

Max(a, b) == IF a >= b THEN a ELSE b

EmptyStr == Str(<<>>)

\* Python truthiness: None, "", 0, {} and [] are falsy.
Truthy(v) ==
    CASE v = None -> FALSE
      [] IsStr(v) -> v.str # <<>>
      [] IsNum(v) -> v.num # 0
      [] IsInt(v) -> v.int # 0
      [] IsDict(v) -> DOMAIN v.dict # {}
      [] IsList(v) -> v.list # <<>>
      [] OTHER -> TRUE

\* Python's `a or b`.
Or(a, b) == IF Truthy(a) THEN a ELSE b

(***************************************************************************)
(* Code points of the string model and their Unicode properties.           *)
(***************************************************************************)
Whitespace == {" "}

CombiningMarks == {"^"}         \* general category Mn

Uppercase == {"A", "E", "E^"}

Digits == {"0", "1", "2", "3", "4", "5", "6", "7", "8", "9"}

DigitValue(c) ==
    CASE c = "0" -> 0 [] c = "1" -> 1 [] c = "2" -> 2 [] c = "3" -> 3
      [] c = "4" -> 4 [] c = "5" -> 5 [] c = "6" -> 6 [] c = "7" -> 7
      [] c = "8" -> 8 [] c = "9" -> 9

\* str.lower() on one code point.
LowerChar(c) ==
    CASE c = "A" -> "a"
      [] c = "E" -> "e"
      [] c = "E^" -> "e^"
      [] OTHER -> c

\* Canonical decomposition (NFD) of one code point.
NfdChar(c) ==
    CASE c = "e^" -> <<"e", "^">>
      [] c = "E^" -> <<"E", "^">>
      [] OTHER -> <<c>>

RECURSIVE Lower(_)
Lower(s) == IF s = <<>> THEN <<>> ELSE <<LowerChar(Head(s))>> \o Lower(Tail(s))

RECURSIVE LStrip(_)
LStrip(s) ==
    IF s # <<>> /\ Head(s) \in Whitespace THEN LStrip(Tail(s)) ELSE s

RECURSIVE RStrip(_)
RStrip(s) ==
    IF s # <<>> /\ s[Len(s)] \in Whitespace
    THEN RStrip(SubSeq(s, 1, Len(s) - 1))
    ELSE s

\* str.strip()
Strip(s) == RStrip(LStrip(s))

\* str.split(): the maximal runs of non-whitespace, in order.
RECURSIVE SplitFrom(_, _)
SplitFrom(s, word) ==
    IF s = <<>>
    THEN IF word = <<>> THEN <<>> ELSE <<word>>
    ELSE IF Head(s) \in Whitespace
         THEN (IF word = <<>> THEN <<>> ELSE <<word>>) \o SplitFrom(Tail(s), <<>>)
         ELSE SplitFrom(Tail(s), Append(word, Head(s)))

Split(s) == SplitFrom(s, <<>>)

\* " ".join(words)
RECURSIVE JoinSpace(_)
JoinSpace(words) ==
    IF words = <<>> THEN <<>>
    ELSE IF Len(words) = 1 THEN words[1]
    ELSE words[1] \o <<" ">> \o JoinSpace(Tail(words))

\* unicodedata.normalize("NFD", s)
RECURSIVE Nfd(_)
Nfd(s) == IF s = <<>> THEN <<>> ELSE NfdChar(Head(s)) \o Nfd(Tail(s))

\* "".join(c for c in s if unicodedata.category(c) != "Mn")
RECURSIVE DropMn(_)
DropMn(s) ==
    IF s = <<>> THEN <<>>
    ELSE IF Head(s) \in CombiningMarks THEN DropMn(Tail(s))
    ELSE <<Head(s)>> \o DropMn(Tail(s))

\* GeoaddressProvider._normalize_string_for_comparison(text): text is None
\* or a str, the result is a str.
_normalize_string_for_comparison(t) ==
    IF ~Truthy(t) THEN EmptyStr
    ELSE Str(DropMn(Nfd(JoinSpace(Split(Strip(Lower(t.str)))))))


(***************************************************************************)
(* Dotted paths and float().                                               *)
(***************************************************************************)
\* "".join(tokens): the dict key a path segment names.
RECURSIVE Concat(_)
Concat(s) == IF s = <<>> THEN "" ELSE Head(s) \o Concat(Tail(s))

\* path.split("."): the segments between dots, empty ones kept.
RECURSIVE SplitDotFrom(_, _)
SplitDotFrom(s, seg) ==
    IF s = <<>> THEN <<Concat(seg)>>
    ELSE IF Head(s) = "." THEN <<Concat(seg)>> \o SplitDotFrom(Tail(s), <<>>)
    ELSE SplitDotFrom(Tail(s), Append(seg, Head(s)))

SplitDot(s) == SplitDotFrom(s, <<>>)

HasDot(s) == \E i \in 1..Len(s) : s[i] = "."

RECURSIVE DigitsValue(_)
DigitsValue(s) ==
    IF s = <<>> THEN 0
    ELSE 10 * DigitsValue(SubSeq(s, 1, Len(s) - 1)) + DigitValue(s[Len(s)])

RECURSIVE Pow10(_)
Pow10(n) == IF n = 0 THEN 1 ELSE 10 * Pow10(n - 1)

\* float(t) of a str without surrounding whitespace: digits with at most
\* one decimal point; anything else is a ValueError.
FloatOfStripped(t) ==
    LET dots == {i \in 1..Len(t) : t[i] = "."}
        dot == IF dots = {} THEN Len(t) + 1 ELSE CHOOSE i \in dots : TRUE
        whole == SubSeq(t, 1, dot - 1)
        frac == SubSeq(t, dot + 1, Len(t))
    IN  IF \/ Cardinality(dots) > 1
           \/ \E i \in 1..Len(t) : t[i] \notin Digits \cup {"."}
           \/ Len(whole) + Len(frac) = 0
           \/ Len(frac) > 4
        THEN Raise("ValueError")
        ELSE Num(DigitsValue(whole) * FixedPoint
                 + DigitsValue(frac) * (FixedPoint \div Pow10(Len(frac))))

\* float(s) of a str: surrounding whitespace is ignored.
FloatOfStr(s) == FloatOfStripped(Strip(s))

\* float(v)
Float(v) ==
    CASE IsNum(v) -> v
      [] IsInt(v) -> Num(v.int * FixedPoint)
      [] IsStr(v) -> FloatOfStr(v.str)
      [] OTHER -> Raise("TypeError")

(***************************************************************************)
(* The confidence estimator.                                               *)
(***************************************************************************)
\* GeoaddressProvider._round_score(score)
_round_score(score) == Num(Round2(score.num))

\* The loop of _extract_importance over the keys of the path.
RECURSIVE ExtractWalk(_, _)
ExtractWalk(val, keys) ==
    IF keys = <<>> THEN val
    ELSE LET next == IF IsDict(val) THEN Get(val, Head(keys)) ELSE None
         IN  IF next = None THEN None ELSE ExtractWalk(next, Tail(keys))

\* GeoaddressProvider._extract_importance(feature, importance_key)
_extract_importance(feature, importance_key) ==
    IF ~Truthy(feature) \/ ~Truthy(importance_key) THEN None
    ELSE ExtractWalk(feature, SplitDot(importance_key.str))

\* The same statements without the cap of the product at 1.0.
ConfidenceFromFloatUncapped(importance_val, multiplier) ==
    IF IsRaise(importance_val) \/ ~IsNum(multiplier) THEN None
    ELSE LET conf == (importance_val.num * multiplier.num) \div FixedPoint
         IN  IF 10 * conf >= 3 * FixedPoint
             THEN _round_score(Num(Max(0, conf)))
             ELSE None

\* The statements of _calculate_confidence_from_importance after
\* importance_val = float(importance).
ConfidenceFromFloat(importance_val, multiplier) ==
    IF IsRaise(importance_val) \/ ~IsNum(multiplier) THEN None
    ELSE LET conf == Min((importance_val.num * multiplier.num) \div FixedPoint,
                         FixedPoint)
         IN  IF 10 * conf >= 3 * FixedPoint
             THEN _round_score(Num(Max(0, conf)))
             ELSE None

\* GeoaddressProvider._calculate_confidence_from_importance: a confidence,
\* or None (ValueError and TypeError are caught inside).
_calculate_confidence_from_importance(importance, multiplier) ==
    IF IsDict(importance) THEN None
    ELSE ConfidenceFromFloat(Float(importance), multiplier)

\* any(c.isdigit() for c in s)
HasDigit(s) == \E i \in 1..Len(s) : s[i] \in Digits

\* The heuristic with the city test placed before the address tests.
HeuristicCityFirst(normalized) ==
    LET address_line1 == Or(Get(normalized, "address_line1"), EmptyStr)
        city == Or(Get(normalized, "city"), EmptyStr)
        postal_code == Or(Get(normalized, "postal_code"), EmptyStr)
    IN  IF Truthy(address_line1) /\ ~IsStr(address_line1) THEN Raise("TypeError")
        ELSE IF Truthy(city) \/ Truthy(postal_code) THEN Num(5 * (FixedPoint \div 10))
        ELSE IF Truthy(address_line1) /\ HasDigit(address_line1.str)
             THEN Num(9 * (FixedPoint \div 10))
        ELSE IF Truthy(address_line1) THEN Num(7 * (FixedPoint \div 10))
        ELSE Num(3 * (FixedPoint \div 10))

\* GeoaddressProvider._calculate_confidence_heuristic(normalized).  Iterating
\* a truthy address_line1 that is a number raises TypeError.
_calculate_confidence_heuristic(normalized) ==
    LET address_line1 == Or(Get(normalized, "address_line1"), EmptyStr)
        city == Or(Get(normalized, "city"), EmptyStr)
        postal_code == Or(Get(normalized, "postal_code"), EmptyStr)
    IN  IF Truthy(address_line1) /\ ~IsStr(address_line1) THEN Raise("TypeError")
        ELSE IF Truthy(address_line1) /\ HasDigit(address_line1.str)
             THEN Num(9 * (FixedPoint \div 10))
        ELSE IF Truthy(address_line1) THEN Num(7 * (FixedPoint \div 10))
        ELSE IF Truthy(city) \/ Truthy(postal_code) THEN Num(5 * (FixedPoint \div 10))
        ELSE Num(3 * (FixedPoint \div 10))

\* The fallback lookup with properties.importance consulted first.
FallbackPropertiesFirst(feature) ==
    LET properties == GetOr(feature, "properties", EmptyDict)
    IN  IF ~IsDict(properties) THEN Raise("AttributeError")
        ELSE IF Truthy(Get(properties, "importance")) THEN Get(properties, "importance")
        ELSE Get(feature, "importance")

\* feature.get("importance") or feature.get("properties", {}).get("importance"):
\* .get on properties that are not a dict raises AttributeError.
FallbackImportance(feature) ==
    IF Truthy(Get(feature, "importance")) THEN Get(feature, "importance")
    ELSE LET properties == GetOr(feature, "properties", EmptyDict)
         IN  IF IsDict(properties) THEN Get(properties, "importance")
             ELSE Raise("AttributeError")

\* importance: what the path gave, or the fallback lookup when it gave
\* nothing.
ImportanceOf(feature, extracted) ==
    IF extracted = None /\ Truthy(feature) THEN FallbackImportance(feature)
    ELSE extracted

\* The confidence from the importance when there is one, else the
\* heuristic's, rounded.
ConfidenceOrHeuristic(importance, conf, base_conf) ==
    IF IsRaise(importance) THEN importance
    ELSE IF conf # None THEN conf
    ELSE IF IsRaise(base_conf) THEN base_conf
    ELSE _round_score(base_conf)

\* The statements of _calculate_confidence after the importance is known.
ConfidenceGiven(importance, importance_multiplier, norm) ==
    ConfidenceOrHeuristic(importance,
                          IF importance = None THEN None
                          ELSE _calculate_confidence_from_importance(importance,
                                                                     importance_multiplier),
                          _calculate_confidence_heuristic(norm))

\* GeoaddressProvider._calculate_confidence(normalized, feature,
\* importance_key, importance_multiplier)
_calculate_confidence(normalized, feature, importance_key, importance_multiplier) ==
    ConfidenceGiven(ImportanceOf(feature, _extract_importance(feature, importance_key)),
                    importance_multiplier,
                    IF IsDict(normalized) THEN normalized ELSE EmptyDict)

(***************************************************************************)
(* The relevance scorer.  Coordinates are in millionths of a degree,       *)
(* distances in 1/FixedPoint km, weights and scores in 1/FixedPoint.       *)
(***************************************************************************)
EarthRadiusKm == 6371

\* 180 * 100 / pi: millionths of a degree per 1/FixedPoint km of arc, times
\* the radius.
ArcDivisor == 5730

Abs(x) == IF x < 0 THEN -x ELSE x

\* sqrt(n), rounded down: the root between lo and hi.
RECURSIVE IsqrtBetween(_, _, _)
IsqrtBetween(n, lo, hi) ==
    IF lo >= hi THEN lo
    ELSE LET mid == (lo + hi + 1) \div 2
         IN  IF mid * mid <= n THEN IsqrtBetween(n, mid, hi)
             ELSE IsqrtBetween(n, lo, mid - 1)

\* sqrt(n), rounded down, for n below 2^30.
Isqrt(n) == IsqrtBetween(n, 0, 32767)

\* The distance as the difference of the latitudes, sign included.
DistanceSigned(lat1, lon1, lat2, lon2) ==
    IF ~(IsNum(lat1) /\ IsNum(lon1) /\ IsNum(lat2) /\ IsNum(lon2))
    THEN Raise("TypeError")
    ELSE Num(((lat2.num - lat1.num) * EarthRadiusKm) \div ArcDivisor)

\* GeoaddressProvider._calculate_distance_km(lat1, lon1, lat2, lon2) for
\* points within a hundredth of a degree of latitude 0 and longitude 0, in
\* millionths of a degree: there sin(x) is x and cos(lat) is 1 to the
\* precision kept, and the haversine formula is R * sqrt(dlat^2 + dlon^2),
\* that is R * |dlat| on one meridian.  An operand that is not a number
\* raises TypeError (float - str).
_calculate_distance_km(lat1, lon1, lat2, lon2) ==
    IF ~(IsNum(lat1) /\ IsNum(lon1) /\ IsNum(lat2) /\ IsNum(lon2))
    THEN Raise("TypeError")
    ELSE CASE lon1.num = lon2.num ->
              Num((Abs(lat2.num - lat1.num) * EarthRadiusKm) \div ArcDivisor)
           [] OTHER ->
              Num((Isqrt((lat2.num - lat1.num) * (lat2.num - lat1.num)
                         + (lon2.num - lon1.num) * (lon2.num - lon1.num))
                   * EarthRadiusKm) \div ArcDivisor)

\* a in b, for two str
IsSubstring(a, b) ==
    \E i \in 0..(Len(b) - Len(a)) : SubSeq(b, i + 1, i + Len(a)) = a

\* The normalization applied to a field value: AttributeError for a truthy
\* value that is not a str (it has no .lower()).
NormalizeField(v) ==
    IF Truthy(v) /\ ~IsStr(v) THEN Raise("AttributeError")
    ELSE _normalize_string_for_comparison(v)

\* weights.get(key, 0)
Weight(weights, key) == GetOr(weights, key, Num(0)).num

city_keys == <<"city", "village", "town", "municipality">>

\* next((d.get(k) for k in city_keys if d.get(k)), "")
CityLike(d) ==
    LET hits == {i \in 1..Len(city_keys) : Truthy(Get(d, city_keys[i]))}
    IN  IF hits = {} THEN EmptyStr
        ELSE Get(d, city_keys[CHOOSE i \in hits : \A j \in hits : i <= j])

\* The weight of a match of two normalized fields.
Matched(q, r, weights, key) == IF q = r THEN Weight(weights, key) ELSE 0

\* The city test with equality alone.
CityMatchedWhenEqual(q_city, r_city, q_city_norm, r_city_norm, weights) ==
    IF Truthy(q_city) /\ Truthy(r_city) /\ q_city_norm = r_city_norm
    THEN Weight(weights, "city") ELSE 0

\* The city test: both names non-empty and equal or one inside the other.
CityMatched(q_city, r_city, q_city_norm, r_city_norm, weights) ==
    IF /\ Truthy(q_city) /\ Truthy(r_city)
       /\ \/ q_city_norm = r_city_norm
          \/ IsSubstring(q_city_norm.str, r_city_norm.str)
          \/ IsSubstring(r_city_norm.str, q_city_norm.str)
    THEN Weight(weights, "city") ELSE 0

\* The score of the normalized fields, or the exception their
\* normalization raised.
ScoreOf(q_street, r_street, q_post, r_post, q_city, r_city, q_city_norm, r_city_norm, weights) ==
    IF IsRaise(q_street) THEN q_street
    ELSE IF IsRaise(r_street) THEN r_street
    ELSE IF IsRaise(q_post) THEN q_post
    ELSE IF IsRaise(r_post) THEN r_post
    ELSE IF Truthy(q_city) /\ Truthy(r_city) /\ IsRaise(q_city_norm) THEN q_city_norm
    ELSE IF Truthy(q_city) /\ Truthy(r_city) /\ IsRaise(r_city_norm) THEN r_city_norm
    ELSE Num(Matched(q_street, r_street, weights, "street")
             + Matched(q_post, r_post, weights, "postcode")
             + CityMatched(q_city, r_city, q_city_norm, r_city_norm, weights))

\* The statements of _calculate_relevance_score after the cities are found.
ScoreOfCities(q_street, r_street, q_post, r_post, q_city, r_city, weights) ==
    ScoreOf(q_street, r_street, q_post, r_post, q_city, r_city,
            NormalizeField(q_city), NormalizeField(r_city), weights)

\* GeoaddressProvider._calculate_relevance_score(query_components,
\* normalized_result, weights): the score, a number, or the exception.
_calculate_relevance_score(query_components, normalized_result, weights) ==
    ScoreOfCities(NormalizeField(Or(Get(query_components, "address_line1"), EmptyStr)),
                  NormalizeField(Or(Get(normalized_result, "address_line1"), EmptyStr)),
                  NormalizeField(Or(Get(query_components, "postal_code"), EmptyStr)),
                  NormalizeField(Or(Get(normalized_result, "postal_code"), EmptyStr)),
                  CityLike(query_components), CityLike(normalized_result), weights)

\* weights = {"street": 3.0, "postcode": 2.0, "city": 1.5, "distance": 1.0}
DefaultWeights ==
    Dict([street |-> Num(3 * FixedPoint), postcode |-> Num(2 * FixedPoint),
          city |-> Num(3 * (FixedPoint \div 2)), distance |-> Num(FixedPoint)])

\* a * b / c without forming a * b (c > 0).
MulDiv(a, b, c) == (a \div c) * b + ((a % c) * b) \div c

\* min(100.0, max(0.0, (score / max_score) * 100.0)), for max_score > 0.
RelevancePercent(score, max_score) ==
    Min(100 * FixedPoint, Max(0, MulDiv(score * 100, FixedPoint, max_score)))

\* The condition can_calculate_distance of _calculate_relevance.
can_calculate_distance(normalized_result, query_latitude, query_longitude, include_distance) ==
    /\ include_distance
    /\ query_latitude # None
    /\ query_longitude # None
    /\ Get(normalized_result, "latitude") # None
    /\ Get(normalized_result, "longitude") # None

\* _calculate_distance_km of the converted coordinates, or the exception
\* the conversion raised.
DistanceBetween(query_latitude, query_longitude, lat, lon) ==
    IF IsRaise(lat) THEN lat
    ELSE IF IsRaise(lon) THEN lon
    ELSE _calculate_distance_km(query_latitude, query_longitude, lat, lon)

\* The distance of the try block: float() of the result's coordinates, then
\* _calculate_distance_km; a TypeError or ValueError in either.
DistanceKm(normalized_result, query_latitude, query_longitude) ==
    DistanceBetween(query_latitude, query_longitude,
                    Float(normalized_result.dict["latitude"]),
                    Float(normalized_result.dict["longitude"]))

\* max_score with the city weight left out of the sum.
MaxScoreWithoutCity(normalized_result, query_latitude, query_longitude, w, include_distance) ==
    Weight(w, "street") + Weight(w, "postcode")
    + IF can_calculate_distance(normalized_result, query_latitude, query_longitude,
                                include_distance)
      THEN Weight(w, "distance") ELSE 0

\* max_score of _calculate_relevance.
MaxScore(normalized_result, query_latitude, query_longitude, w, include_distance) ==
    Weight(w, "street") + Weight(w, "postcode") + Weight(w, "city")
    + IF can_calculate_distance(normalized_result, query_latitude, query_longitude,
                                include_distance)
      THEN Weight(w, "distance") ELSE 0

\* The distance term of the score: weight / (1 + distance_km), or nothing
\* when the distance could not be computed.
DistanceScore(can, distance_km, w) ==
    IF can /\ ~IsRaise(distance_km)
    THEN (Weight(w, "distance") * FixedPoint) \div (distance_km.num + FixedPoint)
    ELSE 0

\* The last statements of _calculate_relevance.
Relevance(base, distance_score, max_score) ==
    IF IsRaise(base) THEN base
    ELSE IF max_score > 0
    THEN _round_score(Num(RelevancePercent(base.num + distance_score, max_score)))
    ELSE _round_score(Num(0))

\* The statements of _calculate_relevance after the weights are chosen.
RelevanceWith(query_components, normalized_result, query_latitude, query_longitude, w, include_distance) ==
    Relevance(_calculate_relevance_score(query_components, normalized_result, w),
              DistanceScore(can_calculate_distance(normalized_result, query_latitude,
                                                   query_longitude, include_distance),
                            DistanceKm(normalized_result, query_latitude, query_longitude),
                            w),
              MaxScore(normalized_result, query_latitude, query_longitude, w,
                       include_distance))

\* GeoaddressProvider._calculate_relevance(query_components, normalized_result,
\* query_latitude, query_longitude, weights, include_distance)
_calculate_relevance(query_components, normalized_result, query_latitude, query_longitude, weights, include_distance) ==
    RelevanceWith(query_components, normalized_result, query_latitude, query_longitude,
                  IF weights = None THEN DefaultWeights ELSE weights, include_distance)

(***************************************************************************)
(* The field catalog and the mapping normalizer.                           *)
(***************************************************************************)
\* The keys of GEOADDRESS_FIELDS_DESCRIPTIONS, in declaration order.
fields_descriptions ==
    <<"text", "reference", "address_line1", "address_line2", "address_line3",
      "city", "postal_code", "state", "region", "country", "country_code",
      "municipality", "neighbourhood", "address_type", "latitude", "longitude",
      "osm_id", "osm_type", "confidence", "relevance", "backend",
      "backend_name", "geoaddress_id">>

\* The keys of an insertion-ordered dict, in order.
KeysOf(d) == [i \in 1..Len(d.items) |-> d.items[i][1]]

HasKey(d, k) == \E i \in 1..Len(d.items) : d.items[i][1] = k

\* d[k], for a key of d
Item(d, k) == d.items[CHOOSE i \in 1..Len(d.items) : d.items[i][1] = k][2]

\* d[k] = v: a new key goes last, a key of d keeps its place.
SetItem(d, k, v) ==
    IF HasKey(d, k)
    THEN ODict([i \in 1..Len(d.items) |->
                   IF d.items[i][1] = k THEN <<k, v>> ELSE d.items[i]])
    ELSE ODict(Append(d.items, <<k, v>>))

\* normalized[key] = value, unless the record or the value is an exception
\* raised on the way.
Store(normalized, key, value) ==
    IF IsRaise(normalized) THEN normalized
    ELSE IF IsRaise(value) THEN value
    ELSE SetItem(normalized, key, value)

\* The same dict to a reader that ignores the order of the keys.
AsDict(d) == Dict([k \in {d.items[i][1] : i \in 1..Len(d.items)} |-> Item(d, k)])

\* str(v) of a str or an int that is not negative.
RECURSIVE DigitsOf(_)
DigitsOf(n) ==
    LET d == <<"0", "1", "2", "3", "4", "5", "6", "7", "8", "9">>[(n % 10) + 1]
    IN  IF n < 10 THEN <<d>> ELSE Append(DigitsOf(n \div 10), d)

PyStr(v) == IF IsStr(v) THEN v ELSE Str(DigitsOf(v.int))

\* The loop of _get_nested_value over the keys of the path.
RECURSIVE NestedWalk(_, _, _)
NestedWalk(val, keys, default) ==
    IF keys = <<>> THEN val
    ELSE IF ~IsDict(val) THEN default
    ELSE LET next == Get(val, Head(keys))
         IN  IF next = None THEN default ELSE NestedWalk(next, Tail(keys), default)

\* GeoaddressProvider._get_nested_value(data, path, default)
_get_nested_value(data, path, default) ==
    IF ~Truthy(path) THEN default
    ELSE NestedWalk(data, SplitDot(path.str), default)

\* r.get("address", {}) of the Nominatim lambdas, then .get on it: the
\* address of the payload when that is a dict, AttributeError otherwise.
NominatimAddress(r) ==
    IF ~IsDict(r) THEN Raise("AttributeError")
    ELSE LET address == GetOr(r, "address", EmptyDict)
         IN  IF IsDict(address) THEN address ELSE Raise("AttributeError")

\* NominatimProvider._field_mapping["reference"]
NominatimReference(r) ==
    IF ~IsDict(r) THEN Raise("AttributeError")
    ELSE IF Truthy(Get(r, "place_id")) THEN PyStr(Get(r, "place_id")) ELSE None

\* NominatimProvider._field_mapping["city"]
NominatimCity(r) ==
    LET address == NominatimAddress(r)
    IN  IF IsRaise(address) THEN address
        ELSE Or(Get(address, "city"),
                Or(Get(address, "town"), Or(Get(address, "village"), EmptyStr)))

\* source(data), for the callables of a mapping table
Call(source, data) ==
    CASE source.fn = "reference" -> NominatimReference(data)
      [] source.fn = "city" -> NominatimCity(data)

\* The loop visiting the fields in the order of the mapping table.
RECURSIVE NormalizeInMappingOrder(_, _, _, _)
NormalizeInMappingOrder(data, mapping, i, normalized) ==
    IF i > Len(mapping.items) THEN normalized
    ELSE LET target_field == mapping.items[i][1]
             source == mapping.items[i][2]
             value == IF callable(source) THEN Call(source, data)
                      ELSE IF IsStr(source) /\ HasDot(source.str)
                           THEN _get_nested_value(data, source, None)
                           ELSE source
         IN  IF IsRaise(value) THEN value
             ELSE NormalizeInMappingOrder(data, mapping, i + 1,
                                          SetItem(normalized, target_field, value))

\* The loop of _normalize_from_mapping from the i-th catalog field on.
RECURSIVE NormalizeFrom(_, _, _, _)
NormalizeFrom(data, mapping, i, normalized) ==
    IF i > Len(fields_descriptions) THEN normalized
    ELSE LET target_field == fields_descriptions[i]
             source == Item(mapping, target_field)
             value == IF callable(source) THEN Call(source, data)
                      ELSE IF IsStr(source) /\ HasDot(source.str)
                           THEN _get_nested_value(data, source, None)
                           ELSE source
         IN  IF ~HasKey(mapping, target_field)
             THEN NormalizeFrom(data, mapping, i + 1, normalized)
             ELSE IF IsRaise(value) THEN value
             ELSE NormalizeFrom(data, mapping, i + 1,
                                SetItem(normalized, target_field, value))

\* GeoaddressProvider._normalize_from_mapping(data, mapping)
_normalize_from_mapping(data, mapping) == NormalizeFrom(data, mapping, 1, ODict(<<>>))

(***************************************************************************)
(* The record helpers of GeoaddressProvider.                               *)
(***************************************************************************)
\* f"{v}" of a str, an int that is not negative, or None
Format(v) ==
    CASE IsStr(v) -> v.str
      [] IsInt(v) -> DigitsOf(v.int)
      [] v = None -> <<"None">>

\* str.upper() on one code point.
UpperChar(c) ==
    CASE c = "a" -> "A"
      [] c = "b" -> "B"
      [] c = "e" -> "E"
      [] c = "e^" -> "E^"
      [] OTHER -> c

\* v.upper(): AttributeError unless v is a str.
Upper(v) ==
    IF IsStr(v) THEN Str([i \in 1..Len(v.str) |-> UpperChar(v.str[i])])
    ELSE Raise("AttributeError")

\* int(t) of a str without surrounding whitespace
IntOfStripped(t) ==
    IF t # <<>> /\ \A i \in 1..Len(t) : t[i] \in Digits
    THEN PyInt(DigitsValue(t))
    ELSE Raise("ValueError")

\* int(v) of an int or a str
ToInt(v) ==
    CASE IsInt(v) -> v
      [] IsStr(v) -> IntOfStripped(Strip(v.str))
      [] OTHER -> Raise("TypeError")

\* ", ".join(parts)
RECURSIVE JoinComma(_)
JoinComma(parts) ==
    IF parts = <<>> THEN <<>>
    ELSE IF Len(parts) = 1 THEN parts[1].str
    ELSE parts[1].str \o <<",", " ">> \o JoinComma(Tail(parts))

\* The fields _build_address_string joins, in order.
address_string_fields ==
    <<"address_line1", "address_line2", "address_line3", "city", "postal_code",
      "state", "country_code">>

\* A join that keeps the empty fields: a separator for every field.
BuildAddressStringKeepingEmpty(normalized) ==
    LET values == [i \in 1..Len(address_string_fields) |->
                       Or(Get(normalized, address_string_fields[i]), EmptyStr)]
    IN  IF \E i \in 1..Len(values) : ~IsStr(values[i]) THEN Raise("TypeError")
        ELSE Str(JoinComma(values))

\* GeoaddressProvider._build_address_string(normalized): TypeError when a
\* part is not a str.
_build_address_string(normalized) ==
    LET values == [i \in 1..Len(address_string_fields) |->
                       Get(normalized, address_string_fields[i])]
        parts == SelectSeq(values, Truthy)
    IN  IF \E i \in 1..Len(parts) : ~IsStr(parts[i]) THEN Raise("TypeError")
        ELSE Str(JoinComma(parts))

\* The id built without looking at the record's own backend_name.
GenerateIdFromAdapterName(address, name) ==
    LET reference == Get(address, "reference")
    IN  IF ~Truthy(reference) \/ ~Truthy(name) THEN None
        ELSE Str(Format(name) \o <<"-">> \o Format(reference))

\* GeoaddressProvider._generate_geoaddress_id(address), name being self.name
_generate_geoaddress_id(address, name) ==
    LET reference == Get(address, "reference")
        backend_name == Or(Get(address, "backend_name"), name)
    IN  IF ~Truthy(reference) \/ ~Truthy(backend_name) THEN None
        ELSE Str(Format(backend_name) \o <<"-">> \o Format(reference))

\* The record returned as it was filled in, not reordered.
KeepInsertionOrder(normalized) == normalized

\* GeoaddressProvider._order_normalized_fields(normalized)
_order_normalized_fields(normalized) ==
    LET present == SelectSeq(fields_descriptions, LAMBDA field : HasKey(normalized, field))
    IN  ODict([i \in 1..Len(present) |-> <<present[i], Item(normalized, present[i])>>])

(***************************************************************************)
(* The extraction of the adapters that reach their vendor: Photon, Here    *)
(* and Geocode Earth.                                                      *)
(***************************************************************************)
\* d.get(k1) or d.get(k2) or d.get(k3) or ""
FirstOf3(d, k1, k2, k3) == Or(Get(d, k1), Or(Get(d, k2), Or(Get(d, k3), EmptyStr)))

\* address_type of PhotonProvider._extract_address_from_feature
PhotonAddressType(osm_key, osm_value) ==
    IF Truthy(osm_key) /\ Truthy(osm_value)
    THEN IF osm_key = Str(<<"place">>) \/ osm_key = Str(<<"highway">>) \/ osm_key = Str(<<"building">>)
         THEN osm_value
         ELSE Str(Format(osm_key) \o <<"_">> \o Format(osm_value))
    ELSE IF Truthy(osm_key) THEN osm_key
    ELSE IF Truthy(osm_value) THEN osm_value
    ELSE EmptyStr

\* address_line1 of Photon and Here: f"{house_number} {street}".strip(),
\* else the street, else "".
HouseAndStreet(house_number, street) ==
    IF Truthy(house_number) /\ Truthy(street)
    THEN Str(Strip(Format(house_number) \o <<" ">> \o Format(street)))
    ELSE IF Truthy(street) THEN street ELSE EmptyStr

\* reference of Photon: f"{osm_type}:{osm_id}" if there are both.
PhotonReference(osm_id, osm_type) ==
    IF osm_id # None /\ Truthy(osm_type)
    THEN Str(Format(osm_type) \o <<":">> \o Format(osm_id))
    ELSE None

\* The record PhotonProvider._extract_address_from_feature fills in.
PhotonFields(properties, country_code, osm_id_int) ==
    IF IsRaise(country_code) THEN country_code
    ELSE IF IsRaise(osm_id_int) THEN osm_id_int
    ELSE ODict(<< <<"address_line1",
                    HouseAndStreet(GetOr(properties, "housenumber", EmptyStr),
                                   GetOr(properties, "street", EmptyStr))>>,
                  <<"address_line2", EmptyStr>>,
                  <<"address_line3", EmptyStr>>,
                  <<"city", FirstOf3(properties, "city", "town", "village")>>,
                  <<"postal_code", GetOr(properties, "postcode", EmptyStr)>>,
                  <<"state", GetOr(properties, "state", EmptyStr)>>,
                  <<"region", GetOr(properties, "region", EmptyStr)>>,
                  <<"country_code", country_code>>,
                  <<"country", GetOr(properties, "country", EmptyStr)>>,
                  <<"municipality", GetOr(properties, "municipality", EmptyStr)>>,
                  <<"neighbourhood",
                    Or(Get(properties, "district"),
                       FirstOf3(properties, "suburb", "quarter", "neighbourhood"))>>,
                  <<"address_type",
                    PhotonAddressType(GetOr(properties, "osm_key", EmptyStr),
                                      GetOr(properties, "osm_value", EmptyStr))>>,
                  <<"reference",
                    PhotonReference(Get(properties, "osm_id"), Get(properties, "osm_type"))>>,
                  <<"osm_id", osm_id_int>>,
                  <<"osm_type", Or(Get(properties, "osm_type"), None)>> >>)

\* The statements of PhotonProvider._extract_address_from_feature after
\* properties = feature.get("properties", {}).
PhotonOfProperties(properties) ==
    IF ~IsDict(properties) THEN Raise("AttributeError")
    ELSE PhotonFields(properties,
                      Upper(GetOr(properties, "countrycode", EmptyStr)),
                      IF Get(properties, "osm_id") # None
                      THEN ToInt(Get(properties, "osm_id")) ELSE None)

\* PhotonProvider._extract_address_from_feature(feature)
Photon_extract_address_from_feature(feature) ==
    IF ~IsDict(feature) THEN Raise("AttributeError")
    ELSE PhotonOfProperties(GetOr(feature, "properties", EmptyDict))

\* The record HereProvider._extract_address_from_result fills in.
HereFields(location, address, country_code) ==
    IF IsRaise(country_code) THEN country_code
    ELSE ODict(<< <<"address_line1",
                    HouseAndStreet(GetOr(address, "HouseNumber", EmptyStr),
                                   GetOr(address, "Street", EmptyStr))>>,
                  <<"address_line2", EmptyStr>>,
                  <<"address_line3", EmptyStr>>,
                  <<"city", GetOr(address, "City", EmptyStr)>>,
                  <<"postal_code", GetOr(address, "PostalCode", EmptyStr)>>,
                  <<"state", GetOr(address, "State", EmptyStr)>>,
                  <<"region", Or(GetOr(address, "County", EmptyStr),
                                 GetOr(address, "Region", EmptyStr))>>,
                  <<"country_code", country_code>>,
                  <<"country", GetOr(address, "Country", EmptyStr)>>,
                  <<"municipality", Or(GetOr(address, "Municipality", EmptyStr),
                                       GetOr(address, "District", EmptyStr))>>,
                  <<"neighbourhood", Or(GetOr(address, "Subdistrict", EmptyStr),
                                        GetOr(address, "Neighborhood", EmptyStr))>>,
                  <<"address_type", EmptyStr>>,
                  <<"reference", IF Truthy(Get(location, "LocationId"))
                                 THEN Str(Format(Get(location, "LocationId")))
                                 ELSE None>> >>)

\* The statements of HereProvider._extract_address_from_result after
\* address = location.get("Address", {}).
HereOfAddress(location, address) ==
    IF ~IsDict(address) THEN Raise("AttributeError")
    ELSE HereFields(location, address, Upper(GetOr(address, "Country", EmptyStr)))

\* The statements of HereProvider._extract_address_from_result after
\* location = result.get("Location", {}).
HereOfLocation(location) ==
    IF ~IsDict(location) THEN Raise("AttributeError")
    ELSE HereOfAddress(location, GetOr(location, "Address", EmptyDict))

\* HereProvider._extract_address_from_result(result)
Here_extract_address_from_result(result) ==
    IF ~IsDict(result) THEN Raise("AttributeError")
    ELSE HereOfLocation(GetOr(result, "Location", EmptyDict))

\* " ".join(address_line1_parts).strip(), else properties.get("name", "")
JoinedOrName(joined, properties) ==
    IF Truthy(joined) THEN joined ELSE GetOr(properties, "name", EmptyStr)

\* The record GeocodeEarthProvider._extract_address_from_feature fills in.
GeocodeEarthFields(feature, properties, address_line1_parts, country_code) ==
    IF \E i \in 1..Len(address_line1_parts) : ~IsStr(address_line1_parts[i])
    THEN Raise("TypeError")
    ELSE IF IsRaise(country_code) THEN country_code
    ELSE ODict(<< <<"address_line1",
                    Or(JoinedOrName(Str(Strip(JoinSpace([i \in 1..Len(address_line1_parts) |->
                                                             address_line1_parts[i].str]))),
                                    properties),
                       EmptyStr)>>,
                  <<"address_line2", EmptyStr>>,
                  <<"address_line3", EmptyStr>>,
                  <<"city", Or(GetOr(properties, "locality", EmptyStr),
                               Or(GetOr(properties, "localadmin", EmptyStr),
                                  Or(GetOr(properties, "county", EmptyStr), EmptyStr)))>>,
                  <<"postal_code", GetOr(properties, "postalcode", EmptyStr)>>,
                  <<"state", GetOr(properties, "state", EmptyStr)>>,
                  <<"region", GetOr(properties, "region", EmptyStr)>>,
                  <<"country_code", country_code>>,
                  <<"country", Or(GetOr(properties, "country", EmptyStr), EmptyStr)>>,
                  <<"municipality", GetOr(properties, "municipality", EmptyStr)>>,
                  <<"neighbourhood", Or(GetOr(properties, "neighbourhood", EmptyStr),
                                        Or(GetOr(properties, "suburb", EmptyStr),
                                           Or(GetOr(properties, "district", EmptyStr),
                                              EmptyStr)))>>,
                  <<"address_type", Or(GetOr(properties, "layer", EmptyStr),
                                       GetOr(properties, "type", EmptyStr))>>,
                  <<"reference",
                    IF Or(Get(properties, "gid"), Get(feature, "id")) # None
                    THEN Str(Format(Or(Get(properties, "gid"), Get(feature, "id"))))
                    ELSE None>> >>)

\* The statements of GeocodeEarthProvider._extract_address_from_feature
\* after properties and geometry are read.
GeocodeEarthOfProperties(feature, properties, geometry) ==
    IF ~IsDict(properties) \/ ~IsDict(geometry) THEN Raise("AttributeError")
    ELSE GeocodeEarthFields(
             feature, properties,
             SelectSeq(<<Get(properties, "housenumber"), Get(properties, "street")>>, Truthy),
             IF Truthy(Get(properties, "country_a"))
             THEN Upper(Get(properties, "country_a")) ELSE EmptyStr)

\* GeocodeEarthProvider._extract_address_from_feature(feature)
GeocodeEarth_extract_address_from_feature(feature) ==
    IF ~IsDict(feature) THEN Raise("AttributeError")
    ELSE GeocodeEarthOfProperties(feature, GetOr(feature, "properties", EmptyDict),
                                  GetOr(feature, "geometry", EmptyDict))

(***************************************************************************)
(* The adapters.  An adapter is named by its `name` attribute.             *)
(***************************************************************************)
Adapters ==
    {"nominatim", "photon", "geoapify", "google_maps", "mapbox", "here",
     "opencage", "maps_co", "locationiq", "geocode_earth"}

\* The adapter modules that import requests; in the others the name
\* `requests` is unbound and requests.get(...) raises NameError.
ImportsRequests == {"photon", "here", "geocode_earth"}

\* The adapters whose constructor reads a required credential.
RequiresCredential == Adapters \ {"nominatim", "photon"}

display_name(adapter) ==
    CASE adapter = "nominatim" -> "Nominatim"
      [] adapter = "photon" -> "Photon"
      [] adapter = "geoapify" -> "Geoapify"
      [] adapter = "google_maps" -> "Google Maps"
      [] adapter = "mapbox" -> "Mapbox"
      [] adapter = "here" -> "Here"
      [] adapter = "opencage" -> "OpenCage"
      [] adapter = "maps_co" -> "Maps.co"
      [] adapter = "locationiq" -> "LocationIQ"
      [] adapter = "geocode_earth" -> "Geocode Earth"

\* {"error": msg}
ErrorRecord(msg) == Dict([error |-> Str(<<msg>>)])

\* The two assignments under `if len(coords) >= 2`.
CoordsInto(normalized, coords) ==
    IF ~IsList(coords) THEN Raise("TypeError")
    ELSE IF Len(coords.list) < 2 THEN normalized
    ELSE Store(Store(normalized, "longitude", Float(coords.list[1])),
               "latitude", Float(coords.list[2]))

\* coords = geometry.get("coordinates", []) and what follows
GeoJsonFrom(normalized, geometry) ==
    IF ~IsDict(geometry) THEN Raise("AttributeError")
    ELSE CoordsInto(normalized, GetOr(geometry, "coordinates", List(<<>>)))

\* coords = feature.get("geometry", {}).get("coordinates", []) and the two
\* assignments under `if len(coords) >= 2`
GeoJsonCoordinates(normalized, feature) ==
    GeoJsonFrom(normalized, GetOr(feature, "geometry", EmptyDict))

\* `if v is not None: normalized[key] = float(v)`
StoreFloat(normalized, key, v) ==
    IF IsRaise(normalized) \/ v = None THEN normalized
    ELSE Store(normalized, key, Float(v))

\* The assignments under `if display_position`.
HereFrom(normalized, display_position) ==
    IF ~Truthy(display_position) THEN normalized
    ELSE IF ~IsDict(display_position) THEN Raise("AttributeError")
    ELSE StoreFloat(StoreFloat(normalized, "latitude", Get(display_position, "Latitude")),
                    "longitude", Get(display_position, "Longitude"))

\* display_position = item.get("Location", {}).get("DisplayPosition", {})
\* and the assignments under `if display_position`
HereCoordinates(normalized, item) ==
    HereFrom(normalized,
             GetOr(GetOr(item, "Location", EmptyDict), "DisplayPosition", EmptyDict))

\* v / 100.0
Hundredth(v) == IF IsRaise(v) THEN v ELSE Num(v.num \div 100)

\* float(match_quality.get("Relevance", 0.0) or 0.0) / 100.0
HereConfidenceOf(match_quality) ==
    IF ~IsDict(match_quality) THEN Raise("AttributeError")
    ELSE Hundredth(Float(Or(GetOr(match_quality, "Relevance", Num(0)), Num(0))))

\* normalized["confidence"] of the Here adapter:
\* float(match_quality.get("Relevance", 0.0) or 0.0) / 100.0
HereConfidence(item) == HereConfidenceOf(GetOr(item, "MatchQuality", EmptyDict))

\* The extraction step of an operation.
Extract(adapter, item) ==
    CASE adapter = "photon" -> Photon_extract_address_from_feature(item)
      [] adapter = "here" -> Here_extract_address_from_result(item)
      [] adapter = "geocode_earth" -> GeocodeEarth_extract_address_from_feature(item)

\* The coordinates step: reverse_geocode of Here and Geocode Earth stores
\* the caller's coordinates, every other operation the vendor's.
Coordinates(adapter, op, normalized, item, latitude, longitude) ==
    IF op = "reverse_geocode" /\ adapter \in {"here", "geocode_earth"}
    THEN SetItem(SetItem(normalized, "latitude", latitude), "longitude", longitude)
    ELSE IF adapter = "here" THEN HereCoordinates(normalized, item)
    ELSE GeoJsonCoordinates(normalized, item)

\* The importance_key an adapter passes to _calculate_confidence.
importance_key(adapter) ==
    CASE adapter = "photon" -> Str(<<"properties", ".", "importance">>)
      [] adapter = "geocode_earth" -> Str(<<"properties", ".", "confidence">>)

\* The confidence step.
Confidence(adapter, normalized, item) ==
    IF adapter = "here" THEN HereConfidence(item)
    ELSE _calculate_confidence(AsDict(normalized), item, importance_key(adapter),
                               Num(2 * FixedPoint))

\* The steps an operation runs on the extracted record, each on the record
\* the previous one left (an exception ends them).
Located(adapter, op, normalized, item, latitude, longitude) ==
    IF IsRaise(normalized) THEN normalized
    ELSE Coordinates(adapter, op, normalized, item, latitude, longitude)

Named(adapter, normalized) ==
    Store(Store(normalized, "backend", Str(<<display_name(adapter)>>)),
          "backend_name", Str(<<adapter>>))

Texted(normalized) ==
    Store(normalized, "text", _build_address_string(AsDict(normalized)))

Confident(adapter, normalized, item) ==
    Store(normalized, "confidence", Confidence(adapter, normalized, item))

\* A relevance step that scores the record of every operation.
ScoredWhateverOperation(op, normalized, query) ==
    Store(normalized, "relevance",
          _calculate_relevance(Dict([address_line1 |-> Or(query, EmptyStr)]),
                               AsDict(normalized), None, None, None, TRUE))

\* The scoring with a weight table that has no city weight.
ScoredWithoutCityWeight(op, normalized, query) ==
    IF op # "search_addresses" THEN normalized
    ELSE Store(normalized, "relevance",
               _calculate_relevance(Dict([address_line1 |-> query]), AsDict(normalized),
                                    None, None,
                                    Dict([street |-> Num(3 * FixedPoint),
                                          postcode |-> Num(2 * FixedPoint)]),
                                    TRUE))

Scored(op, normalized, query) ==
    IF op # "search_addresses" THEN normalized
    ELSE Store(normalized, "relevance",
               _calculate_relevance(Dict([address_line1 |-> query]), AsDict(normalized),
                                    None, None, None, TRUE))

Identified(adapter, normalized) ==
    Store(normalized, "geoaddress_id",
          _generate_geoaddress_id(AsDict(normalized), Str(<<adapter>>)))

\* The record of one vendor item with the last step, the reordering, left
\* out.
RecordUnordered(adapter, op, item, query, latitude, longitude) ==
    Identified(adapter,
      Scored(op,
        Confident(adapter,
          Texted(
            Named(adapter,
              Located(adapter, op, Extract(adapter, item), item, latitude, longitude))),
          item),
        query))

\* _order_normalized_fields of a record, an exception left as it is.
Ordered(normalized) ==
    IF IsRaise(normalized) THEN normalized ELSE _order_normalized_fields(normalized)

\* The statements an operation runs on one vendor item, from the extraction
\* to _order_normalized_fields: the record, or the exception raised.
Record(adapter, op, item, query, latitude, longitude) ==
    Ordered(RecordUnordered(adapter, op, item, query, latitude, longitude))

\* What a call does: the value returned (or the exception leaving the
\* call), whether the throttle ran, and whether an HTTP request was sent.
Outcome(value, throttled, http) == [result |-> value, throttled |-> throttled, http |-> http]

\* The message returned with raw=True when the credential is missing.
CredentialMessage(adapter) ==
    CASE adapter = "geoapify" -> "GEOAPIFY_API_KEY not configured"
      [] adapter = "google_maps" -> "GOOGLE_MAPS_API_KEY not configured"
      [] adapter = "mapbox" -> "MAPBOX_ACCESS_TOKEN not configured"
      [] adapter = "here" -> "HERE_APP_ID and HERE_APP_CODE must be configured"
      [] adapter = "opencage" -> "OPENCAGE_API_KEY not configured"
      [] adapter = "maps_co" -> "MAPS_CO_API_KEY not configured"
      [] adapter = "locationiq" -> "LOCATIONIQ_API_KEY not configured"
      [] adapter = "geocode_earth" -> "GEOCODE_EARTH_API_KEY not configured"

\* "error" in result, for a dict
HasError(result) == IsDict(result) /\ "error" \in DOMAIN result.dict

\* result.get("features", []) if isinstance(result, dict) else []
FeaturesOf(result) ==
    IF IsDict(result) THEN GetOr(result, "features", List(<<>>)) ELSE List(<<>>)

\* The records of the items, one by one: each a record or an exception.
Records(adapter, op, items, query) ==
    [i \in 1..Len(items) |-> Record(adapter, op, items[i], query, None, None)]

\* results_list of the Here operations: view[0].get("Result", []) if view
\* else [], or the exception raised on the way.
HereResults(result) ==
    LET response_data == IF IsDict(result) THEN GetOr(result, "Response", EmptyDict)
                         ELSE EmptyDict
        view == GetOr(response_data, "View", List(<<>>))
    IN  IF ~IsDict(response_data) THEN Raise("AttributeError")
        ELSE IF ~Truthy(view) THEN List(<<>>)
        ELSE IF ~IsList(view) THEN Raise("TypeError")
        ELSE IF ~IsDict(view.list[1]) THEN Raise("AttributeError")
        ELSE GetOr(view.list[1], "Result", List(<<>>))

\* The items of the vendor's answer: the features of Photon and Geocode
\* Earth, the results of Here.
ItemsOf(adapter, result) ==
    IF adapter = "here" THEN HereResults(result) ELSE FeaturesOf(result)

\* The try block of PhotonProvider.search_addresses after response.json():
\* one failing feature fails the call.
PhotonSearch(result, raw, features, records) ==
    IF raw THEN (IF IsList(features) THEN features ELSE List(<<>>))
    ELSE IF HasError(result) THEN List(<<>>)
    ELSE IF ~IsList(features) THEN List(<<>>)
    ELSE IF \E i \in 1..Len(records) : IsRaise(records[i]) THEN List(<<>>)
    ELSE List(records)

\* The try block of GeocodeEarthProvider.search_addresses: a failing feature
\* is skipped.
GeocodeEarthSearch(result, raw, features, records) ==
    IF raw
    THEN IF IsDict(result) /\ "features" \in DOMAIN result.dict
         THEN (IF IsList(features) THEN features ELSE List(<<>>))
         ELSE (IF IsDict(result) THEN List(<<result>>) ELSE List(<<>>))
    ELSE IF HasError(result) THEN List(<<>>)
    ELSE IF ~IsList(features) THEN List(<<>>)
    ELSE List(SelectSeq(records, LAMBDA r : ~IsRaise(r)))

\* The try block of HereProvider.search_addresses: a failing item is
\* skipped.
HereSearch(result, raw, results_list, records) ==
    IF raw
    THEN IF IsRaise(results_list) THEN List(<<ErrorRecord(results_list.raise)>>)
         ELSE IF IsList(results_list) THEN results_list ELSE List(<<>>)
    ELSE IF HasError(result) \/ IsRaise(results_list) \/ ~IsList(results_list)
    THEN List(<<>>)
    ELSE List(SelectSeq(records, LAMBDA r : ~IsRaise(r)))

\* The try block of search_addresses, given the records of the items.
SearchOf(adapter, result, raw, items, records) ==
    CASE adapter = "photon" -> PhotonSearch(result, raw, items, records)
      [] adapter = "here" -> HereSearch(result, raw, items, records)
      [] adapter = "geocode_earth" -> GeocodeEarthSearch(result, raw, items, records)

\* The try block of search_addresses, given the items of the answer.
SearchItems(adapter, result, raw, items, query) ==
    SearchOf(adapter, result, raw, items,
             Records(adapter, "search_addresses", items.list, query))

\* The try block of search_addresses of Photon, Here and Geocode Earth.
Search(adapter, result, raw, query) ==
    SearchItems(adapter, result, raw, ItemsOf(adapter, result), query)

\* The try block of the single-result operations, given the record of the
\* first item.
SingleOf(result, raw, items, record) ==
    IF IsRaise(items) THEN (IF raw THEN ErrorRecord(items.raise) ELSE None)
    ELSE IF raw
    THEN IF ~Truthy(items) THEN None
         ELSE IF IsList(items) THEN items.list[1]
         ELSE ErrorRecord("TypeError")
    ELSE IF HasError(result) \/ ~Truthy(items) THEN None
    ELSE IF ~IsList(items) \/ IsRaise(record) THEN None
    ELSE record

\* The try block of the single-result operations, given the items of the
\* answer.
SingleItems(adapter, op, result, raw, items, latitude, longitude) ==
    SingleOf(result, raw, items,
             Record(adapter, op, items.list[1], None, latitude, longitude))

\* The try block of the single-result operations (reverse_geocode and
\* get_address_by_reference) of Photon, Here and Geocode Earth.
Single(adapter, op, result, raw, latitude, longitude) ==
    SingleItems(adapter, op, result, raw, ItemsOf(adapter, result), latitude, longitude)

\* What requests.get(...), raise_for_status() and response.json() leave the
\* try block with, wrapped per operation: a list for the list operations.
Requested(adapter, raw, response, as_list, parsed) ==
    IF adapter \notin ImportsRequests
    THEN Outcome(IF adapter = "nominatim"
                 THEN (IF as_list THEN List(<<>>) ELSE None)
                 ELSE Raise("NameError"),
                 TRUE, FALSE)
    ELSE IF IsRaise(response)
    THEN Outcome(IF raw THEN (IF as_list THEN List(<<ErrorRecord(response.raise)>>)
                              ELSE ErrorRecord(response.raise))
                 ELSE (IF as_list THEN List(<<>>) ELSE None),
                 TRUE, TRUE)
    ELSE Outcome(parsed, TRUE, TRUE)

\* An early return that says nothing even with raw=True.
NotConfiguredSilent(adapter, raw, as_list) ==
    Outcome(IF as_list THEN List(<<>>) ELSE None, FALSE, FALSE)

\* The early return of an operation whose credential is missing.
NotConfigured(adapter, raw, as_list) ==
    Outcome(IF as_list
            THEN (IF raw THEN List(<<ErrorRecord(CredentialMessage(adapter))>>) ELSE List(<<>>))
            ELSE (IF raw THEN ErrorRecord(CredentialMessage(adapter)) ELSE None),
            FALSE, FALSE)

\* proximity.split(","): the segments between commas, empty ones kept.
RECURSIVE SplitCommaFrom(_, _)
SplitCommaFrom(s, seg) ==
    IF s = <<>> THEN <<seg>>
    ELSE IF Head(s) = "," THEN <<seg>> \o SplitCommaFrom(Tail(s), <<>>)
    ELSE SplitCommaFrom(Tail(s), Append(seg, Head(s)))

\* The try block of _parse_proximity: two parts that both convert, or
\* (None, None).
ParsedParts(parts) ==
    IF Len(parts) # 2 THEN <<None, None>>
    ELSE IF IsRaise(FloatOfStr(parts[1])) \/ IsRaise(FloatOfStr(parts[2]))
    THEN <<None, None>>
    ELSE <<FloatOfStr(parts[1]), FloatOfStr(parts[2])>>

\* GeoaddressProvider._parse_proximity(proximity): (lat, lon), or (None,
\* None) for no proximity and for one that does not parse (a value that is
\* no str has no split: the AttributeError is caught).
_parse_proximity(proximity) ==
    IF ~Truthy(proximity) \/ ~IsStr(proximity) THEN <<None, None>>
    ELSE ParsedParts(SplitCommaFrom(proximity.str, <<>>))

\* What search_addresses adds to params for a proximity that parsed; the
\* values are kept as numbers.
ProximityParams(adapter, point) ==
    IF point[1] = None \/ point[2] = None THEN EmptyDict
    ELSE CASE adapter = "here" ->
                  Dict([prox |-> List(<<point[1], point[2], PyInt(5000)>>)])
           [] adapter = "geocode_earth" ->
                  Dict(("focus.point.lat" :> point[1]) @@ ("focus.point.lon" :> point[2]))
           [] OTHER -> Dict([lat |-> point[1], lon |-> point[2]])

\* The outcome of a search with the part of params its request was sent
\* with, None when no request was sent.
Sent(outcome, params) ==
    [result |-> outcome.result, throttled |-> outcome.throttled, http |-> outcome.http,
     params |-> IF outcome.http THEN params ELSE None]

\* A search that returns early on a proximity that does not parse.
SearchRejectingProximity(adapter, configured, query, raw, proximity, response) ==
    IF Truthy(proximity) /\ _parse_proximity(proximity) = <<None, None>>
    THEN Sent(Outcome(List(<<>>), FALSE, FALSE), None)
    ELSE Sent(IF adapter \in RequiresCredential /\ ~configured
              THEN NotConfigured(adapter, raw, TRUE)
              ELSE Requested(adapter, raw, response, TRUE,
                             IF adapter \in ImportsRequests
                             THEN Search(adapter, response, raw, query)
                             ELSE None),
              ProximityParams(adapter, _parse_proximity(proximity)))

\* search_addresses(query, raw, proximity) of an adapter, given the vendor's
\* response
search_addresses(adapter, configured, query, raw, proximity, response) ==
    Sent(IF adapter \in RequiresCredential /\ ~configured
         THEN NotConfigured(adapter, raw, TRUE)
         ELSE Requested(adapter, raw, response, TRUE,
                        IF adapter \in ImportsRequests
                        THEN Search(adapter, response, raw, query)
                        ELSE None),
         ProximityParams(adapter, _parse_proximity(proximity)))

\* reverse_geocode(latitude, longitude, raw) of an adapter
reverse_geocode(adapter, configured, latitude, longitude, raw, response) ==
    IF adapter \in RequiresCredential /\ ~configured
    THEN NotConfigured(adapter, raw, FALSE)
    ELSE Requested(adapter, raw, response, FALSE,
                   IF adapter \in ImportsRequests
                   THEN Single(adapter, "reverse_geocode", response, raw, latitude, longitude)
                   ELSE None)

\* The adapters whose get_address_by_reference only reports that the vendor
\* has no such lookup, and the message each reports.
ReferenceUnsupported ==
    [photon |-> "Photon does not support get_address_by_reference",
     maps_co |-> "Maps.co does not support get_address_by_reference",
     locationiq |-> "LocationIQ does not support direct lookup by reference ID. Use reverse_geocode with coordinates instead."]

\* get_address_by_reference(reference, raw) of an adapter that defines it
get_address_by_reference(adapter, configured, raw, response) ==
    IF adapter \in DOMAIN ReferenceUnsupported
    THEN Outcome(IF raw THEN ErrorRecord(ReferenceUnsupported[adapter]) ELSE None, FALSE, FALSE)
    ELSE IF adapter \in RequiresCredential /\ ~configured
    THEN NotConfigured(adapter, raw, FALSE)
    ELSE Requested(adapter, raw, response, FALSE,
                   IF adapter \in ImportsRequests
                   THEN Single(adapter, "get_address_by_reference", response, raw, None, None)
                   ELSE None)

\* The adapters whose get_address_by_osm only reports that the vendor has
\* no such lookup.
OsmUnsupported ==
    [photon |-> "Photon does not support get_address_by_osm",
     geoapify |-> "Geoapify does not support get_address_by_osm",
     here |-> "Here does not support get_address_by_osm",
     geocode_earth |-> "Geocode Earth does not support get_address_by_osm"]

\* `not osm_keys_value or not isinstance(osm_keys_value, dict)`
OsmInputInvalid(osm_keys_value) == ~Truthy(osm_keys_value) \/ ~IsDict(osm_keys_value)

\* No f"[{key}={value}]" part: every key or value of the dict is falsy.
NoQueryParts(osm_keys_value) ==
    \A k \in DOMAIN osm_keys_value.dict : k = "" \/ ~Truthy(osm_keys_value.dict[k])

\* [{"error": msg}] if raw else []
ListError(raw, msg) == IF raw THEN List(<<ErrorRecord(msg)>>) ELSE List(<<>>)

\* The statements of get_address_by_osm of Nominatim and Maps.co after the
\* throttle.  The lookup by id catches every exception, the search by tags
\* does so in Nominatim only.
OsmLookupOrSearch(adapter, osm_keys_value, raw) ==
    LET d == osm_keys_value.dict
        osm_id == Get(osm_keys_value, "osm_id")
        osm_type == Get(osm_keys_value, "osm_type")
    IN  IF "osm_id" \in DOMAIN d /\ "osm_type" \in DOMAIN d
        THEN IF ~Truthy(osm_id) \/ ~Truthy(osm_type)
             THEN ListError(raw, "osm_id and osm_type are required when using OSM ID lookup")
             ELSE IF IsRaise(ToInt(osm_id)) THEN ListError(raw, "Invalid OSM ID format")
             ELSE List(<<>>)
        ELSE IF NoQueryParts(osm_keys_value)
             THEN ListError(raw, "At least one valid OSM key-value pair is required")
             ELSE IF adapter = "nominatim" THEN List(<<>>) ELSE Raise("NameError")

\* get_address_by_osm(osm_keys_value, raw) of an adapter
get_address_by_osm(adapter, configured, osm_keys_value, raw) ==
    CASE adapter \in DOMAIN OsmUnsupported ->
             Outcome(ListError(raw, OsmUnsupported[adapter]), FALSE, FALSE)
      [] adapter \in {"google_maps", "mapbox", "opencage"} ->
             Outcome(None, FALSE, FALSE)
      [] adapter = "nominatim" ->
             IF OsmInputInvalid(osm_keys_value)
             THEN Outcome(ListError(raw, "osm_keys_value must be a non-empty dictionary"),
                          FALSE, FALSE)
             ELSE Outcome(OsmLookupOrSearch(adapter, osm_keys_value, raw), TRUE, FALSE)
      [] adapter = "maps_co" ->
             IF ~configured THEN NotConfigured(adapter, raw, TRUE)
             ELSE IF OsmInputInvalid(osm_keys_value)
             THEN Outcome(ListError(raw, "osm_keys_value must be a non-empty dictionary"),
                          FALSE, FALSE)
             ELSE Outcome(OsmLookupOrSearch(adapter, osm_keys_value, raw), TRUE, FALSE)
      [] adapter = "locationiq" ->
             IF OsmInputInvalid(osm_keys_value)
             THEN Outcome(ListError(raw, "osm_keys_value must be a non-empty dictionary"),
                          FALSE, FALSE)
             ELSE IF ~configured THEN NotConfigured(adapter, raw, TRUE)
             ELSE IF NoQueryParts(osm_keys_value)
             THEN Outcome(ListError(raw, "At least one valid OSM key-value pair is required"),
                          TRUE, FALSE)
             ELSE Outcome(Raise("NameError"), TRUE, FALSE)

(***************************************************************************)
(* Inputs of the harnesses.                                                *)
(***************************************************************************)
TextChars == {"a", "A", "e^", "E^", "^", " "}

SeqsUpTo(S, n) == UNION {[1..k -> S] : k \in 0..n}

TextInputs == {None} \cup {Str(s) : s \in SeqsUpTo(TextChars, MaxTextLen)}

\* The dicts whose keys are some of DOMAIN choices, each key k holding one of
\* the values choices[k].
DictsFrom(choices) ==
    UNION {{Dict(f) : f \in {g \in [K -> UNION {choices[k] : k \in K}] :
                              \A k \in K : g[k] \in choices[k]}}
           : K \in SUBSET DOMAIN choices}

\* What a vendor may send as an importance: numbers (0, 0.1234, 0.1777, 0.3,
\* 0.6), a numeric and a non-numeric string, a nested mapping.
ImportanceValues ==
    {Num(0), Num(1234), Num(1777), Num(3000), Num(6000),
     Str(<<"0", ".", "4">>), Str(<<"a">>), EmptyDict}

PropertiesValues ==
    {None, Str(<<"a">>), EmptyDict} \cup {Dict([importance |-> v]) : v \in ImportanceValues}

Features ==
    {None} \cup DictsFrom([importance |-> ImportanceValues,
                           properties |-> PropertiesValues])

\* Normalized records: address_line1 without and with a digit, empty, None,
\* or a number; and two values that are not a dict at all.
ConfNormalized ==
    {None, Str(<<"a">>)}
    \cup DictsFrom([address_line1 |-> {None, EmptyStr, Str(<<"a">>),
                                       Str(<<"1", " ", "a">>), Num(5)},
                    city |-> {Str(<<"a">>)},
                    postal_code |-> {Str(<<"1">>)}])

ImportanceKeys ==
    {None, Str(<<"importance">>), Str(<<"properties", ".", "importance">>)}

\* importance_multiplier: the default 2.0, 1.0 and -2.0
Multipliers == {Num(2 * FixedPoint), Num(FixedPoint), Num(-2 * FixedPoint)}

(***************************************************************************)
(* SpecNormalize: a caller normalizes a string and normalizes the result   *)
(* once more.                                                              *)
(***************************************************************************)
StrIdle ==
    /\ text = None
    /\ normalized1 = None
    /\ normalized2 = None
    /\ strPc = "idle"

RelIdle ==
    /\ relArgs = None
    /\ relevance = None
    /\ relPc = "idle"

ConfIdle ==
    /\ confArgs = None
    /\ confidence = None
    /\ confPc = "idle"

MapIdle ==
    /\ mapArgs = None
    /\ mapped = None
    /\ mapPc = "idle"

DistIdle ==
    /\ distArgs = None
    /\ distKm = None
    /\ distKmBack = None
    /\ distPc = "idle"

ShareIdle ==
    /\ synchronized = FALSE
    /\ callers = <<>>
    /\ requested = <<>>

ApiIdle ==
    /\ provider = "none"
    /\ credential = FALSE
    /\ vendor = None
    /\ now = 0
    /\ last_request_time = 0
    /\ slept = 0
    /\ call = None
    /\ returned = None
    /\ apiPc = "idle"

Normalize ==
    /\ strPc = "input"
    /\ normalized1' = _normalize_string_for_comparison(text)
    /\ strPc' = "once"
    /\ UNCHANGED <<text, normalized2, confVars, relVars, mapVars, apiVars, distVars, shareVars>>

NormalizeAgain ==
    /\ strPc = "once"
    /\ normalized2' = _normalize_string_for_comparison(normalized1)
    /\ strPc' = "twice"
    /\ UNCHANGED <<text, normalized1, confVars, relVars, mapVars, apiVars, distVars, shareVars>>

InitNormalize ==
    /\ text \in TextInputs
    /\ normalized1 = None
    /\ normalized2 = None
    /\ strPc = "input"
    /\ ConfIdle
    /\ RelIdle
    /\ MapIdle
    /\ ApiIdle
    /\ DistIdle
    /\ ShareIdle

NextNormalize == Normalize \/ NormalizeAgain

SpecNormalize == InitNormalize /\ [][NextNormalize]_vars

(***************************************************************************)
(* SpecConfidence: one call of _calculate_confidence on arguments drawn    *)
(* from the shapes a vendor payload and a normalized record can take.      *)
(***************************************************************************)
CalculateConfidence ==
    /\ confPc = "input"
    /\ confidence' = _calculate_confidence(confArgs.normalized, confArgs.feature,
                                           confArgs.importance_key,
                                           confArgs.importance_multiplier)
    /\ confPc' = "done"
    /\ UNCHANGED <<confArgs, strVars, relVars, mapVars, apiVars, distVars, shareVars>>

InitConfidence ==
    /\ confArgs \in [normalized : ConfNormalized,
                     feature : Features,
                     importance_key : ImportanceKeys,
                     importance_multiplier : Multipliers]
    /\ confidence = None
    /\ confPc = "input"
    /\ StrIdle
    /\ RelIdle
    /\ MapIdle
    /\ ApiIdle
    /\ DistIdle
    /\ ShareIdle

NextConfidence == CalculateConfidence

SpecConfidence == InitConfidence /\ [][NextConfidence]_vars

(***************************************************************************)
(* SpecRelevance: one call of _calculate_relevance.                        *)
(***************************************************************************)
QueryComponents ==
    DictsFrom([address_line1 |-> {Str(<<"a">>)},
               postal_code |-> {Str(<<"1">>)},
               city |-> {Str(<<"a">>)}])

\* The result's coordinates: absent, on the query's meridian at 0, 0.22 m,
\* 0.44 m and 1 km from the origin, a latitude that is None or no number.
ResultCoordinates ==
    {<<>>} \cup {[latitude |-> lat, longitude |-> Num(0)] :
                 lat \in {Num(0), Num(2), Num(4), Num(9000), None, Str(<<"a">>)}}

ResultFields ==
    DictsFrom([address_line1 |-> {Str(<<"A">>), Str(<<"b">>), Num(5)},
               postal_code |-> {Str(<<"1">>), Str(<<"2">>)},
               city |-> {Str(<<"a", " ", "b">>), Str(<<"b">>)},
               village |-> {Str(<<"a">>)}])

\* f extended by g (two dicts with disjoint keys).
Merge(f, g) == [k \in DOMAIN f \cup DOMAIN g |-> IF k \in DOMAIN f THEN f[k] ELSE g[k]]

NormalizedResults == {Dict(Merge(r.dict, c)) : r \in ResultFields, c \in ResultCoordinates}

QueryPoints ==
    {<<None, None>>, <<Num(0), Num(0)>>, <<Num(0), None>>, <<Str(<<"a">>), Num(0)>>}

\* weights: the default (None), none at all, and a table with a negative
\* street weight and no city weight.
WeightTables ==
    {None, EmptyDict,
     Dict([street |-> Num(-FixedPoint), postcode |-> Num(2 * FixedPoint),
           distance |-> Num(FixedPoint)])}

CalculateRelevance ==
    /\ relPc = "input"
    /\ relevance' = _calculate_relevance(relArgs.query_components,
                                         relArgs.normalized_result,
                                         relArgs.query_point[1], relArgs.query_point[2],
                                         relArgs.weights, relArgs.include_distance)
    /\ relPc' = "done"
    /\ UNCHANGED <<relArgs, strVars, confVars, mapVars, apiVars, distVars, shareVars>>

InitRelevance ==
    /\ relArgs \in [query_components : QueryComponents,
                    normalized_result : NormalizedResults,
                    query_point : QueryPoints,
                    weights : WeightTables,
                    include_distance : BOOLEAN]
    /\ relevance = None
    /\ relPc = "input"
    /\ StrIdle
    /\ ConfIdle
    /\ MapIdle
    /\ ApiIdle
    /\ DistIdle
    /\ ShareIdle

NextRelevance == CalculateRelevance

SpecRelevance == InitRelevance /\ [][NextRelevance]_vars


(***************************************************************************)
(* SpecMapping: one call of _normalize_from_mapping on a vendor payload    *)
(* and a mapping table.                                                    *)
(***************************************************************************)
\* Target fields of a table: three of the catalog and one that is not.
MappingKeys == {"postal_code", "city", "reference", "place_id"}

\* What a table maps a field to: two callables, a path of two and of three
\* keys, a string without a dot, "" and None.
MappingSources ==
    {Fn("reference"), Fn("city"),
     Str(<<"address", ".", "postcode">>),
     Str(<<"address", ".", "postcode", ".", "code">>),
     Str(<<"road">>), EmptyStr, None}

\* The injective sequences over S of length n at most.
DistinctSeqs(S, n) ==
    {q \in SeqsUpTo(S, n) : \A i, j \in 1..Len(q) : i # j => q[i] # q[j]}

MappingTables ==
    UNION {{ODict([i \in 1..Len(keys) |-> <<keys[i], sources[i]>>]) :
            sources \in [1..Len(keys) -> MappingSources]}
           : keys \in DistinctSeqs(MappingKeys, MaxMappingLen)}

Payloads ==
    {None}
    \cup DictsFrom([place_id |-> {PyInt(0), PyInt(7)},
                    address |-> {None, Str(<<"a">>), EmptyDict,
                                 Dict([postcode |-> Str(<<"7", "5">>)]),
                                 Dict([postcode |-> Dict([code |-> Str(<<"7", "5">>)])]),
                                 Dict([postcode |-> None, city |-> Str(<<"a">>)]),
                                 Dict([town |-> Str(<<"b">>)])}])

NormalizeFromMapping ==
    /\ mapPc = "input"
    /\ mapped' = _normalize_from_mapping(mapArgs.data, mapArgs.mapping)
    /\ mapPc' = "done"
    /\ UNCHANGED <<mapArgs, strVars, confVars, relVars, apiVars, distVars, shareVars>>

InitMapping ==
    /\ mapArgs \in [data : Payloads, mapping : MappingTables]
    /\ mapped = None
    /\ mapPc = "input"
    /\ StrIdle
    /\ ConfIdle
    /\ RelIdle
    /\ ApiIdle
    /\ DistIdle
    /\ ShareIdle

NextMapping == NormalizeFromMapping

SpecMapping == InitMapping /\ [][NextMapping]_vars


(***************************************************************************)
(* Spec: a caller makes an adapter instance and calls its operations one   *)
(* after another; the vendor answers every request of the instance with    *)
(* the same payload.                                                       *)
(***************************************************************************)
\* The minimum interval between two requests, in tenths of a second.
Interval(a) ==
    CASE a \in {"nominatim", "maps_co"} -> 10
      [] a \in {"locationiq", "opencage", "geocode_earth"} -> 5
      [] OTHER -> 1

\* time.time() when the instance is made, in tenths of a second: later than
\* any interval after the epoch, where _last_request_time starts.
StartTime == Interval("nominatim")

\* The clock is followed until an interval and MaxElapsed tenths of a second
\* after the instance was made.
Horizon == StartTime + Interval(provider) + MaxElapsed

GeoJsonPoint == Dict([coordinates |-> List(<<Num(2), Num(4)>>)])

\* Photon features: a full address; a street without osm_type or geometry;
\* an empty feature; null properties; a numeric postcode; an osm_id that is
\* no number.
PhotonFeatures ==
    << Dict([properties |->
                 Dict([housenumber |-> Str(<<"1">>), street |-> Str(<<"a">>),
                       city |-> Str(<<"a">>), postcode |-> Str(<<"1">>),
                       countrycode |-> Str(<<"a">>), osm_id |-> PyInt(5),
                       osm_type |-> Str(<<"N">>), osm_key |-> Str(<<"place">>),
                       osm_value |-> Str(<<"city">>), importance |-> Num(6000)]),
             geometry |-> GeoJsonPoint]),
       Dict([properties |-> Dict([street |-> Str(<<"b">>), osm_id |-> PyInt(5),
                                  osm_key |-> Str(<<"amenity">>),
                                  osm_value |-> Str(<<"cafe">>)])]),
       EmptyDict,
       Dict([properties |-> None]),
       Dict([properties |-> Dict([postcode |-> PyInt(75)])]),
       Dict([properties |-> Dict([osm_id |-> Str(<<"a">>), osm_type |-> Str(<<"W">>)])]) >>

\* Here results: a full address; a street without LocationId; an empty
\* result; a null Location; a numeric PostalCode; a numeric LocationId with
\* a Relevance of 150.
HereItems ==
    << Dict([Location |->
                 Dict([LocationId |-> Str(<<"a">>),
                       Address |-> Dict([Street |-> Str(<<"a">>), HouseNumber |-> PyInt(1),
                                         City |-> Str(<<"a">>), PostalCode |-> Str(<<"1">>),
                                         Country |-> Str(<<"a">>)]),
                       DisplayPosition |-> Dict([Latitude |-> Num(4), Longitude |-> Num(2)])]),
             MatchQuality |-> Dict([Relevance |-> Num(100 * FixedPoint)])]),
       Dict([Location |-> Dict([Address |-> Dict([Street |-> Str(<<"b">>)]),
                                DisplayPosition |-> Dict([Latitude |-> Num(4)])])]),
       EmptyDict,
       Dict([Location |-> None]),
       Dict([Location |-> Dict([Address |-> Dict([PostalCode |-> PyInt(75)])])]),
       Dict([Location |-> Dict([LocationId |-> PyInt(7)]),
             MatchQuality |-> Dict([Relevance |-> Num(150 * FixedPoint)])]) >>

\* Geocode Earth features: a full address; a name with the id 0; an empty
\* feature; a null geometry; a numeric housenumber; an empty gid with a
\* numeric country_a.
GeocodeEarthFeatures ==
    << Dict([properties |->
                 Dict([gid |-> Str(<<"a">>), housenumber |-> Str(<<"1">>),
                       street |-> Str(<<"a">>), locality |-> Str(<<"a">>),
                       postalcode |-> Str(<<"1">>), country_a |-> Str(<<"a">>),
                       confidence |-> Num(8000)]),
             geometry |-> GeoJsonPoint]),
       Dict([properties |-> Dict([name |-> Str(<<"b">>)]), id |-> PyInt(0)]),
       EmptyDict,
       Dict([geometry |-> None]),
       Dict([properties |-> Dict([housenumber |-> PyInt(5), street |-> Str(<<"a">>)])]),
       Dict([properties |-> Dict([gid |-> EmptyStr, country_a |-> PyInt(3)])]) >>

\* The answers holding items: up to MaxItems of the vendor's items, in the
\* vendor's order.
ItemLists(items) ==
    {SelectSeq(items, LAMBDA item : item \in chosen) :
        chosen \in {c \in SUBSET {items[i] : i \in 1..Len(items)} : Cardinality(c) <= MaxItems}}

\* What the vendor of an adapter may answer: a transport failure, a JSON
\* list, an error object, objects without or with malformed item lists, and
\* the answers holding items.  The adapters that never reach their vendor
\* have no answer to receive.
Responses(a) ==
    CASE a = "photon" ->
             {Raise("ConnectionError"), List(<<>>), Dict([error |-> Str(<<"a">>)]),
              EmptyDict, Dict([features |-> None]), Dict([features |-> PyInt(5)])}
             \cup {Dict([features |-> List(l)]) : l \in ItemLists(PhotonFeatures)}
      [] a = "geocode_earth" ->
             {Raise("ConnectionError"), List(<<>>), Dict([error |-> Str(<<"a">>)]),
              EmptyDict, Dict([features |-> None]), Dict([features |-> PyInt(5)])}
             \cup {Dict([features |-> List(l)]) : l \in ItemLists(GeocodeEarthFeatures)}
      [] a = "here" ->
             {Raise("ConnectionError"), List(<<>>), Dict([error |-> Str(<<"a">>)]),
              EmptyDict, Dict([Response |-> None]),
              Dict([Response |-> Dict([View |-> List(<<>>)])])}
             \cup {Dict([Response |-> Dict([View |-> List(<<Dict([Result |-> List(l)])>>)])]) :
                   l \in ItemLists(HereItems)}
      [] OTHER -> {None}

Queries == {Str(<<"a">>), Str(<<"b">>)}

\* proximity: none, two that parse ("1,3" and "3, 1") and one that does not.
Proximities ==
    {None, Str(<<"1", ",", "3">>), Str(<<"3", ",", " ", "1">>), Str(<<"1", ",", "a">>)}

\* osm_keys_value: None, empty, an id lookup (valid, zero id, id that is no
\* number), a tag search (valid, empty value).
OsmInputs ==
    {None, EmptyDict,
     Dict([osm_id |-> PyInt(5), osm_type |-> Str(<<"N">>)]),
     Dict([osm_id |-> PyInt(0), osm_type |-> Str(<<"N">>)]),
     Dict([osm_id |-> Str(<<"a">>), osm_type |-> Str(<<"N">>)]),
     Dict([place |-> Str(<<"city">>)]),
     Dict([place |-> EmptyStr])}

\* Records handed to _generate_geoaddress_id.
IdInputs ==
    DictsFrom([reference |-> {None, EmptyStr, Str(<<"a">>), PyInt(0), PyInt(5)},
               backend_name |-> {EmptyStr, Str(<<"b">>)}])

\* A throttle that records the time before it sleeps.
ThrottledStampingFirst(outcome, elapsed) ==
    IF outcome.throttled
    THEN LET time_since_last == now - last_request_time
             woke == IF time_since_last < Interval(provider)
                     THEN now + (Interval(provider) - time_since_last)
                     ELSE now
         IN  /\ woke + elapsed <= Horizon
             /\ last_request_time' = now
             /\ slept' = woke - now
             /\ now' = woke + elapsed
    ELSE /\ elapsed = 0
         /\ slept' = 0
         /\ UNCHANGED <<now, last_request_time>>

\* The clock and _last_request_time after a call: a call that throttles
\* sleeps the rest of the interval, stamps _last_request_time, and returns
\* `elapsed` later.
Throttled(outcome, elapsed) ==
    IF outcome.throttled
    THEN LET time_since_last == now - last_request_time
             woke == IF time_since_last < Interval(provider)
                     THEN now + (Interval(provider) - time_since_last)
                     ELSE now
         IN  /\ woke + elapsed <= Horizon
             /\ last_request_time' = woke
             /\ slept' = woke - now
             /\ now' = woke + elapsed
    ELSE /\ elapsed = 0
         /\ slept' = 0
         /\ UNCHANGED <<now, last_request_time>>

\* A call on the instance: the throttle moves the clock, the caller holds
\* what the call returned.
Invoke(c, outcome) ==
    /\ apiPc = "ready"
    /\ \E elapsed \in 0..1 : Throttled(outcome, elapsed)
    /\ apiPc' = "returned"
    /\ call' = c
    /\ returned' = outcome
    /\ UNCHANGED <<provider, credential, vendor, strVars, confVars, relVars, mapVars, distVars, shareVars>>

SearchAddresses ==
    /\ apiPc = "ready"
    /\ \E query \in Queries, raw \in BOOLEAN, proximity \in Proximities :
           Invoke([op |-> "search_addresses", query |-> query, raw |-> raw,
                   proximity |-> proximity],
                search_addresses(provider, credential, query, raw, proximity, vendor))

ReverseGeocode ==
    /\ apiPc = "ready"
    /\ \E raw \in BOOLEAN :
           Invoke([op |-> "reverse_geocode", latitude |-> Num(1), longitude |-> Num(3),
                 raw |-> raw],
                reverse_geocode(provider, credential, Num(1), Num(3), raw, vendor))

\* OpenCage has no get_address_by_reference.
GetAddressByReference ==
    /\ apiPc = "ready"
    /\ provider # "opencage"
    /\ \E raw \in BOOLEAN :
           Invoke([op |-> "get_address_by_reference", reference |-> Str(<<"a">>), raw |-> raw],
                get_address_by_reference(provider, credential, raw, vendor))

GetAddressByOsm ==
    /\ apiPc = "ready"
    /\ \E osm_keys_value \in OsmInputs, raw \in BOOLEAN :
           Invoke([op |-> "get_address_by_osm", osm_keys_value |-> osm_keys_value, raw |-> raw],
                get_address_by_osm(provider, credential, osm_keys_value, raw))

\* A direct call of the id helper.
GenerateGeoaddressId ==
    /\ apiPc = "ready"
    /\ \E address \in IdInputs :
           Invoke([op |-> "_generate_geoaddress_id", address |-> address],
                Outcome(_generate_geoaddress_id(address, Str(<<provider>>)), FALSE, FALSE))

\* The caller lets go of what the call returned and is ready for the next.
Resume ==
    /\ apiPc = "returned"
    /\ apiPc' = "ready"
    /\ call' = None
    /\ returned' = None
    /\ UNCHANGED <<provider, credential, vendor, now, last_request_time, slept,
                   strVars, confVars, relVars, mapVars, distVars, shareVars>>

\* The caller lets a tenth of a second pass before the next call.
Wait ==
    /\ apiPc = "ready"
    /\ now < Horizon
    /\ now' = now + 1
    /\ UNCHANGED <<provider, credential, vendor, last_request_time, slept, call, returned,
                   apiPc, strVars, confVars, relVars, mapVars, distVars, shareVars>>

Init ==
    /\ provider \in Adapters
    /\ credential \in (IF provider \in RequiresCredential THEN BOOLEAN ELSE {TRUE})
    /\ vendor \in Responses(provider)
    /\ now = StartTime
    /\ last_request_time = 0
    /\ slept = 0
    /\ call = None
    /\ returned = None
    /\ apiPc = "ready"
    /\ StrIdle
    /\ ConfIdle
    /\ RelIdle
    /\ MapIdle
    /\ DistIdle
    /\ ShareIdle

Next ==
    \/ SearchAddresses
    \/ ReverseGeocode
    \/ GetAddressByReference
    \/ GetAddressByOsm
    \/ GenerateGeoaddressId
    \/ Resume
    \/ Wait

Spec == Init /\ [][Next]_vars


(***************************************************************************)
(* Claims about _normalize_string_for_comparison.                          *)
(***************************************************************************)
\* C9: normalization is idempotent: normalizing the result of a
\* normalization returns that result unchanged, for every input string.
C9_Idempotent == strPc = "twice" => normalized2 = normalized1

NoLeadingOrTrailingWhitespace(s) ==
    s = <<>> \/ (s[1] \notin Whitespace /\ s[Len(s)] \notin Whitespace)

NoWhitespaceRun(s) ==
    \A i \in 1..(Len(s) - 1) : ~(s[i] \in Whitespace /\ s[i + 1] \in Whitespace)

\* Two inputs differ only in letter case, diacritics and amount of
\* whitespace: without case and diacritics they hold the same words.
Words(t) == IF ~Truthy(t) THEN <<>> ELSE Split(DropMn(Nfd(Lower(t.str))))

\* C10: the output is lowercased, trimmed, free of whitespace runs and of
\* combining marks; empty or None input gives ""; and inputs that differ
\* only in case, diacritics and amount of whitespace give equal outputs.
C10_NormalForm ==
    strPc = "once" =>
        /\ IsStr(normalized1)
        /\ \A i \in 1..Len(normalized1.str) :
               normalized1.str[i] \notin (Uppercase \cup CombiningMarks)
        /\ NoLeadingOrTrailingWhitespace(normalized1.str)
        /\ NoWhitespaceRun(normalized1.str)
        /\ (text \in {None, EmptyStr} => normalized1 = EmptyStr)
        /\ \A other \in TextInputs :
               Words(other) = Words(text)
                   => _normalize_string_for_comparison(other) = normalized1

(***************************************************************************)
(* Claims about _calculate_confidence.                                     *)
(***************************************************************************)
\* C3: for every input the call returns a number within [0, 1] that has at
\* most two decimals.
C3_ConfidenceInRange ==
    confPc = "done" =>
        /\ IsNum(confidence)
        /\ 0 <= confidence.num /\ confidence.num <= FixedPoint
        /\ confidence.num % (FixedPoint \div 100) = 0

\* No importance anywhere in the feature: nothing under "importance", and
\* the properties, when present, are a mapping without "importance".
NoImportanceSignal(feature) ==
    \/ feature = None
    \/ /\ "importance" \notin DOMAIN feature.dict
       /\ \/ "properties" \notin DOMAIN feature.dict
          \/ /\ IsDict(feature.dict.properties)
             /\ "importance" \notin DOMAIN feature.dict.properties.dict

\* The text of a field of a record: "" when the field is absent or None.
FieldText(record, field) ==
    IF IsDict(record) /\ field \in DOMAIN record.dict /\ IsStr(record.dict[field])
    THEN record.dict[field].str
    ELSE <<>>

TextualField(record, field) ==
    ~IsDict(record) \/ field \notin DOMAIN record.dict
        \/ record.dict[field] = None \/ IsStr(record.dict[field])

Tenths(n) == Num(n * (FixedPoint \div 10))

\* C4: without an importance signal the confidence is 0.9 for an
\* address_line1 holding a digit, else 0.7 for a non-empty address_line1,
\* else 0.5 for a non-empty city or postal_code, else 0.3.
C4_HeuristicTable ==
    (/\ confPc = "done"
     /\ NoImportanceSignal(confArgs.feature)
     /\ TextualField(confArgs.normalized, "address_line1")) =>
        LET line1 == FieldText(confArgs.normalized, "address_line1")
            city == FieldText(confArgs.normalized, "city")
            postal == FieldText(confArgs.normalized, "postal_code")
        IN  confidence =
                IF line1 # <<>> /\ (\E i \in 1..Len(line1) : line1[i] \in Digits)
                THEN Tenths(9)
                ELSE IF line1 # <<>> THEN Tenths(7)
                ELSE IF city # <<>> \/ postal # <<>> THEN Tenths(5)
                ELSE Tenths(3)

\* A digit-free address_line1 together with a city: the result is 0.7.
C4_Witness ==
    /\ confPc = "done"
    /\ NoImportanceSignal(confArgs.feature)
    /\ FieldText(confArgs.normalized, "address_line1") = <<"a">>
    /\ FieldText(confArgs.normalized, "city") # <<>>
    /\ confidence = Tenths(7)

(***************************************************************************)
(* Claims about _calculate_relevance.                                      *)
(***************************************************************************)
RelWeights == IF relArgs.weights = None THEN DefaultWeights ELSE relArgs.weights

RelMaxScore ==
    MaxScore(relArgs.normalized_result, relArgs.query_point[1], relArgs.query_point[2],
             RelWeights, relArgs.include_distance)

\* C5: the result is the clamped, rounded percentage: a number within
\* [0, 100] with two decimals for every query, result, coordinates and
\* weights, and 0 when max_score is not positive.
C5_RelevanceInRange ==
    relPc = "done" =>
        /\ IsNum(relevance)
        /\ 0 <= relevance.num /\ relevance.num <= 100 * FixedPoint
        /\ relevance.num % (FixedPoint \div 100) = 0
        /\ (RelMaxScore <= 0 => relevance.num = 0)

\* C6: with no query components, no query coordinates and the default
\* weights, the relevance of any result is 0.
C6_ZeroWithoutQuery ==
    (/\ relPc = "done"
     /\ relArgs.query_components = EmptyDict
     /\ relArgs.query_point = <<None, None>>
     /\ relArgs.weights = None
     /\ IsNum(relevance)) => relevance = Num(0)

\* The signals of a call, as section 4.4 of the specification states them.
SameText(field) ==
    NormalizeField(Or(Get(relArgs.query_components, field), EmptyStr))
        = NormalizeField(Or(Get(relArgs.normalized_result, field), EmptyStr))

CityMatches ==
    LET q == CityLike(relArgs.query_components)
        r == CityLike(relArgs.normalized_result)
        qn == _normalize_string_for_comparison(q).str
        rn == _normalize_string_for_comparison(r).str
    IN  /\ Truthy(q) /\ Truthy(r)
        /\ (qn = rn \/ IsSubstring(qn, rn) \/ IsSubstring(rn, qn))

RelDistance ==
    DistanceKm(relArgs.normalized_result, relArgs.query_point[1], relArgs.query_point[2])

DistanceAttempted ==
    can_calculate_distance(relArgs.normalized_result, relArgs.query_point[1],
                           relArgs.query_point[2], relArgs.include_distance)

DistanceEvaluated == DistanceAttempted /\ IsNum(RelDistance)

Hundred == Num(100 * FixedPoint)

\* C7 as stated: with the default weights the relevance is 100 only when
\* address_line1 and postal_code are equal, the city matches and the
\* distance, when evaluated, is exactly 0; and it is 100 when all fields
\* match and the distance is 0.
C7_HundredOnlyAtZeroDistance ==
    (relPc = "done" /\ relArgs.weights = None /\ IsNum(relevance)) =>
        /\ relevance = Hundred =>
               /\ SameText("address_line1") /\ SameText("postal_code") /\ CityMatches
               /\ (DistanceEvaluated => RelDistance.num = 0)
        /\ (/\ SameText("address_line1") /\ SameText("postal_code") /\ CityMatches
            /\ DistanceEvaluated /\ RelDistance.num = 0) => relevance = Hundred

\* C7 amended: with the default weights the relevance is 100 only when
\* address_line1 and postal_code are equal, the city matches and the
\* distance, when evaluated, is below 0.0004 km, 4 in 1/FixedPoint km (where
\* the percentage rounds to 100.00); and it is 100 when all fields match and the distance is 0 or
\* is not taken into account.
C7_HundredOnlyNearZeroDistance ==
    (relPc = "done" /\ relArgs.weights = None /\ IsNum(relevance)) =>
        /\ relevance = Hundred =>
               /\ SameText("address_line1") /\ SameText("postal_code") /\ CityMatches
               /\ (DistanceEvaluated => RelDistance.num < 4)
        /\ (/\ SameText("address_line1") /\ SameText("postal_code") /\ CityMatches
            /\ (DistanceAttempted => DistanceEvaluated /\ RelDistance.num = 0))
               => relevance = Hundred

\* A result 0.22 m from the query point, all fields matching: relevance 100.
C7_Witness ==
    /\ relPc = "done"
    /\ relArgs.weights = None
    /\ DistanceEvaluated
    /\ RelDistance.num > 0
    /\ relevance = Hundred

(***************************************************************************)
(* Claims about _normalize_from_mapping.                                   *)
(***************************************************************************)
\* One step of a dot-path: the value under key k of a mapping, None when v
\* is no mapping or has no such key.
Step(v, k) == IF IsDict(v) /\ k \in DOMAIN v.dict THEN v.dict[k] ELSE None

RECURSIVE Descend(_, _)
Descend(v, keys) == IF keys = <<>> THEN v ELSE Descend(Step(v, Head(keys)), Tail(keys))

\* The value the claim gives a mapped field.
MappedValue(source, data) ==
    IF callable(source) THEN Call(source, data)
    ELSE IF IsStr(source) /\ \E i \in 1..Len(source.str) : source.str[i] = "."
         THEN Descend(data, SplitDot(source.str))
         ELSE source

\* C2: the record holds exactly the catalog fields that are keys of the
\* mapping, in catalog order whatever the order of the mapping, each with
\* source(data) for a callable, the dot-path lookup for a string with a dot
\* (None when a key is missing, a value on the way is no mapping or is
\* None), and the mapped value itself otherwise; when a callable raises, the
\* call ends with the exception of the first such field in catalog order.
C2_MappingRecord ==
    mapPc = "done" =>
        LET mapping == mapArgs.mapping
            fields == SelectSeq(fields_descriptions, LAMBDA f : HasKey(mapping, f))
            Value(i) == MappedValue(Item(mapping, fields[i]), mapArgs.data)
            failing == {i \in 1..Len(fields) : IsRaise(Value(i))}
        IN  IF failing = {}
            THEN /\ ~IsRaise(mapped)
                 /\ KeysOf(mapped) = fields
                 /\ \A i \in 1..Len(fields) : mapped.items[i][2] = Value(i)
            ELSE mapped = Value(CHOOSE i \in failing : \A j \in failing : i <= j)

\* A table listing postal_code (a path) before reference (a callable): the
\* record has reference first, then the postcode found under address.
C2_Witness ==
    /\ mapPc = "done"
    /\ KeysOf(mapArgs.mapping) = <<"postal_code", "reference">>
    /\ callable(Item(mapArgs.mapping, "reference"))
    /\ Item(mapArgs.mapping, "postal_code") = Str(<<"address", ".", "postcode">>)
    /\ ~IsRaise(mapped)
    /\ KeysOf(mapped) = <<"reference", "postal_code">>
    /\ Item(mapped, "postal_code") = Str(<<"7", "5">>)

(***************************************************************************)
(* Claims about the records the adapters return.                           *)
(***************************************************************************)
\* The records a finished call handed back with raw=False: the elements of
\* the list of search_addresses, the one record of the other operations.
ReturnedRecords ==
    IF apiPc # "returned" \/ "raw" \notin DOMAIN call THEN {}
    ELSE IF call.raw THEN {}
    ELSE IF IsList(returned.result)
    THEN {returned.result.list[i] : i \in 1..Len(returned.result.list)}
    ELSE IF DOMAIN returned.result = {"items"} THEN {returned.result}
    ELSE {}

\* The place of a key in the Field Catalog.
CatalogIndex(k) == CHOOSE p \in 1..Len(fields_descriptions) : fields_descriptions[p] = k

\* Every key is a catalog key and the keys follow the catalog's declaration
\* order.
InCatalogOrder(keys) ==
    /\ \A i \in 1..Len(keys) : \E p \in 1..Len(fields_descriptions) : fields_descriptions[p] = keys[i]
    /\ \A i, j \in 1..Len(keys) : i < j => CatalogIndex(keys[i]) < CatalogIndex(keys[j])

\* C1: every record returned with raw=False by any operation of any adapter
\* has only keys of the Field Catalog, in the catalog's declaration order,
\* whatever order the adapter inserted them in.
C1_CatalogOrder ==
    \A record \in ReturnedRecords : InCatalogOrder(KeysOf(record))

\* Photon's search returned a record whose keys the adapter had inserted in
\* another order (country_code before country, reference near the end).
C1_Witness ==
    /\ apiPc = "returned"
    /\ provider = "photon"
    /\ call.op = "search_addresses"
    /\ ~call.raw
    /\ IsList(returned.result)
    /\ returned.result.list # <<>>
    /\ LET inserted == RecordUnordered(provider, call.op, ItemsOf(provider, vendor).list[1],
                                       call.query, None, None)
       IN  /\ ~IsRaise(inserted)
           /\ ~InCatalogOrder(KeysOf(inserted))
           /\ returned.result.list[1] = Ordered(inserted)

\* The id the claim gives a record with this reference and backend name.
IdOf(backend_name, reference) ==
    IF Truthy(reference)
    THEN Str(Format(backend_name) \o <<"-">> \o Format(reference))
    ELSE None

\* C8: _generate_geoaddress_id returns None when the record's reference is
\* falsy and otherwise backend_name, "-" and reference joined, backend_name
\* being the record's or, when that is falsy, the adapter's name; and in
\* every record an adapter returns geoaddress_id is None or is backend_name,
\* "-" and reference of that same record.
C8_GeoaddressId ==
    /\ (apiPc = "returned" /\ call.op = "_generate_geoaddress_id") =>
           returned.result =
               IdOf(IF Truthy(Get(call.address, "backend_name"))
                    THEN Get(call.address, "backend_name") ELSE Str(<<provider>>),
                    Get(call.address, "reference"))
    /\ \A record \in ReturnedRecords :
           /\ HasKey(record, "geoaddress_id")
           /\ Item(record, "geoaddress_id") =
                  IdOf(Item(record, "backend_name"), Item(record, "reference"))

\* The helper was called on a record that names another backend than the
\* adapter and has a reference: the id starts with the record's backend.
C8_Witness ==
    /\ apiPc = "returned"
    /\ call.op = "_generate_geoaddress_id"
    /\ Get(call.address, "backend_name") = Str(<<"b">>)
    /\ Get(call.address, "reference") = PyInt(5)
    /\ returned.result = Str(<<"b", "-", "5">>)

\* An adapter returned a record that has an id.
C8_RecordWitness ==
    \E record \in ReturnedRecords : Item(record, "geoaddress_id") # None

(***************************************************************************)
(* Claims about failures of the public operations.                         *)
(***************************************************************************)
\* A public operation has returned to the caller.
OperationReturned == apiPc = "returned" /\ "raw" \in DOMAIN call

\* C11: no exception escapes a public operation of any adapter: whatever
\* the arguments, the vendor's answer or the transport failure, the call
\* returns a value.
C11_NoExceptionEscapes == OperationReturned => ~IsRaise(returned.result)

\* The list operations.
ListOperations == {"search_addresses", "get_address_by_osm"}

\* The osm_keys_value with which get_address_by_osm of an adapter gets as
\* far as its HTTP request.
OsmRequestReached(adapter, osm_keys_value) ==
    /\ adapter \in {"nominatim", "maps_co", "locationiq"}
    /\ ~OsmInputInvalid(osm_keys_value)
    /\ IF adapter # "locationiq" /\ {"osm_id", "osm_type"} \subseteq DOMAIN osm_keys_value.dict
       THEN /\ Truthy(Get(osm_keys_value, "osm_id"))
            /\ Truthy(Get(osm_keys_value, "osm_type"))
            /\ ~IsRaise(ToInt(Get(osm_keys_value, "osm_id")))
       ELSE ~NoQueryParts(osm_keys_value)

\* The call got as far as its HTTP request and the request, or the parsing
\* of the answer, failed with an exception.
RequestFailed ==
    /\ OperationReturned
    /\ returned.throttled
    /\ provider \notin ImportsRequests \/ IsRaise(vendor)
    /\ call.op = "get_address_by_osm" => OsmRequestReached(provider, call.osm_keys_value)

\* The exception the request failed with.
RequestException == IF provider \in ImportsRequests THEN vendor.raise ELSE "NameError"

\* C12: when the HTTP request or the parsing of its response fails with an
\* exception, the operation returns the error record of that exception (in
\* a list for the list operations) if raw=True, and [] or None if raw=False.
C12_FailureReported ==
    RequestFailed =>
        returned.result =
            IF call.op \in ListOperations
            THEN (IF call.raw THEN List(<<ErrorRecord(RequestException)>>) ELSE List(<<>>))
            ELSE (IF call.raw THEN ErrorRecord(RequestException) ELSE None)

(***************************************************************************)
(* Claims about missing credentials and unsupported operations.            *)
(***************************************************************************)
\* The configuration key that holds the credential of an adapter (Here has
\* two, the application id and the application code).
RequiredKeys(adapter) ==
    CASE adapter = "geoapify" -> {"GEOAPIFY_API_KEY"}
      [] adapter = "google_maps" -> {"GOOGLE_MAPS_API_KEY"}
      [] adapter = "mapbox" -> {"MAPBOX_ACCESS_TOKEN"}
      [] adapter = "here" -> {"HERE_APP_ID", "HERE_APP_CODE"}
      [] adapter = "opencage" -> {"OPENCAGE_API_KEY"}
      [] adapter = "maps_co" -> {"MAPS_CO_API_KEY"}
      [] adapter = "locationiq" -> {"LOCATIONIQ_API_KEY"}
      [] adapter = "geocode_earth" -> {"GEOCODE_EARTH_API_KEY"}
      [] OTHER -> {}

\* search_addresses has returned on an instance without its credential.
SearchedWithoutCredential ==
    /\ OperationReturned
    /\ call.op = "search_addresses"
    /\ RequiredKeys(provider) # {}
    /\ ~credential

\* C13 as stated: without the credential search_addresses returns [] when
\* raw=False and [{"error": "<KEY> not configured"}], <KEY> being the name
\* of the missing configuration key, when raw=True, and no HTTP request is
\* attempted.
C13_KeyNotConfigured ==
    SearchedWithoutCredential =>
        /\ ~returned.http
        /\ IF call.raw
           THEN \E key \in RequiredKeys(provider) :
                    returned.result = List(<<ErrorRecord(key \o " not configured")>>)
           ELSE returned.result = List(<<>>)

\* C13 amended: the message is "<KEY> not configured" on the adapters with
\* one credential key and "HERE_APP_ID and HERE_APP_CODE must be
\* configured" on Here; neither the throttle nor an HTTP request runs.
C13_CredentialMissing ==
    SearchedWithoutCredential =>
        /\ ~returned.http
        /\ ~returned.throttled
        /\ IF ~call.raw THEN returned.result = List(<<>>)
           ELSE IF provider = "here"
           THEN returned.result =
                    List(<<ErrorRecord("HERE_APP_ID and HERE_APP_CODE must be configured")>>)
           ELSE \E key \in RequiredKeys(provider) :
                    returned.result = List(<<ErrorRecord(key \o " not configured")>>)

\* Here, without its credentials, was searched with raw=True and answered
\* with its own message.
C13_Witness ==
    /\ SearchedWithoutCredential
    /\ provider = "here"
    /\ call.raw
    /\ returned.result # List(<<>>)
    /\ ~returned.http

\* The adapters that inherit get_address_by_osm from GeoaddressProvider.
OsmInherited == {"google_maps", "mapbox", "opencage"}

\* The operations an adapter's vendor has no lookup for: those the adapter
\* answers with a fixed message and those it does not define itself.
Unsupported(adapter, op) ==
    \/ op = "get_address_by_reference" /\ adapter \in DOMAIN ReferenceUnsupported
    \/ op = "get_address_by_osm" /\ adapter \in DOMAIN OsmUnsupported \cup OsmInherited

\* {"error": msg} for some message.
IsErrorRecord(v) == IsDict(v) /\ DOMAIN v.dict = {"error"}

\* C14: an operation the vendor of an adapter does not support, called with
\* raw=True, returns an error record (in a list for the list operations)
\* and sends no HTTP request; this holds for all ten adapters, those that
\* do not define the operation themselves included.
C14_UnsupportedReported ==
    (OperationReturned /\ call.raw /\ Unsupported(provider, call.op)) =>
        /\ ~returned.http
        /\ IF call.op \in ListOperations
           THEN /\ IsList(returned.result)
                /\ Len(returned.result.list) = 1
                /\ IsErrorRecord(returned.result.list[1])
           ELSE IsErrorRecord(returned.result)

(***************************************************************************)
(* Claims about the throttle.                                              *)
(***************************************************************************)
\* C15: calls made one after another on one instance send their HTTP
\* requests at least the adapter's minimum interval apart: each call that
\* sends one has first slept the rest of the interval since
\* _last_request_time and recorded the new time; the first request of a
\* fresh instance is not delayed.
C15_MinimumInterval ==
    [][(apiPc = "ready" /\ apiPc' = "returned") =>
           /\ returned'.http => returned'.throttled
           /\ returned'.throttled =>
                  /\ last_request_time' >= last_request_time + Interval(provider)
                  /\ last_request_time = 0 => slept' = 0]_vars

\* Geocode Earth was sent a request that had to wait for the interval to
\* end: the instance's second request at the earliest.
C15_Witness ==
    /\ apiPc = "returned"
    /\ provider = "geocode_earth"
    /\ returned.http
    /\ slept > 0
    /\ last_request_time >= StartTime + Interval(provider)

(***************************************************************************)
(* Claims about the fields every returned record carries.                  *)
(***************************************************************************)
\* The items of the answer the vendor gave the instance.
VendorItems == ItemsOf(provider, vendor)

\* An operation has returned after its request was answered with at least
\* one item.
AnsweredWithItems ==
    /\ OperationReturned
    /\ returned.http
    /\ ~IsRaise(vendor)
    /\ IsList(VendorItems)
    /\ VendorItems.list # <<>>

\* C16: with raw=False every returned record carries backend (the adapter's
\* display_name), backend_name (the adapter's name), text, confidence and
\* geoaddress_id, and carries relevance if and only if the operation is
\* search_addresses; with raw=True the vendor's items are returned as they
\* came.
C16_RecordFields ==
    /\ \A record \in ReturnedRecords :
           /\ HasKey(record, "backend")
           /\ Item(record, "backend") = Str(<<display_name(provider)>>)
           /\ HasKey(record, "backend_name")
           /\ Item(record, "backend_name") = Str(<<provider>>)
           /\ HasKey(record, "text")
           /\ HasKey(record, "confidence")
           /\ HasKey(record, "geoaddress_id")
           /\ HasKey(record, "relevance") <=> call.op = "search_addresses"
    /\ (AnsweredWithItems /\ call.raw) =>
           returned.result = IF call.op \in ListOperations THEN VendorItems
                             ELSE VendorItems.list[1]

\* reverse_geocode returned a record: it has a confidence and no relevance.
C16_Witness ==
    /\ OperationReturned
    /\ call.op = "reverse_geocode"
    /\ \E record \in ReturnedRecords :
           HasKey(record, "confidence") /\ ~HasKey(record, "relevance")

(***************************************************************************)
(* Claims about the text field.                                            *)
(***************************************************************************)
\* The fields of the display text that the record holds a non-empty value
\* for, in the order of the text.
NonEmptyTextFields(record) ==
    SelectSeq(address_string_fields,
              LAMBDA f : HasKey(record, f) /\ Item(record, f) \notin {None, EmptyStr})

\* The values of the fields, one after the other, ", " between two.
RECURSIVE Separated(_, _)
Separated(record, fields) ==
    IF fields = <<>> THEN <<>>
    ELSE Item(record, Head(fields)).str
         \o (IF Len(fields) = 1 THEN <<>> ELSE <<",", " ">> \o Separated(record, Tail(fields)))

\* s occurs in t from position i on.
OccursAt(s, t, i) ==
    i >= 1 /\ i + Len(s) - 1 <= Len(t) /\ \A k \in 1..Len(s) : t[i + k - 1] = s[k]

\* C17: text is the non-empty values among address_line1, address_line2,
\* address_line3, city, postal_code, state and country_code, in that order,
\* joined with ", ": it neither starts nor ends with a separator, has no
\* empty segment, and is "" exactly when the seven fields are all empty or
\* absent.
C17_Text ==
    \A record \in ReturnedRecords :
        LET fields == NonEmptyTextFields(record)
            t == Item(record, "text")
        IN  /\ IsStr(t)
            /\ \A i \in 1..Len(fields) : IsStr(Item(record, fields[i]))
            /\ t.str = Separated(record, fields)
            /\ t = EmptyStr <=> fields = <<>>
            /\ ~OccursAt(<<",", " ">>, t.str, 1)
            /\ ~OccursAt(<<",", " ">>, t.str, Len(t.str) - 1)
            /\ \A i \in 1..Len(t.str) : ~OccursAt(<<",", " ", ",", " ">>, t.str, i)

\* A returned record with empty second and third lines whose text joins the
\* first line, the city, the postcode and the country code.
C17_Witness ==
    \E record \in ReturnedRecords :
        /\ NonEmptyTextFields(record) = <<"address_line1", "city", "postal_code", "country_code">>
        /\ Item(record, "address_line2") = EmptyStr
        /\ Item(record, "text") = Str(<<"1", " ", "a", ",", " ", "a", ",", " ", "1", ",", " ", "A">>)

(***************************************************************************)
(* Claims about the helpers' handling of unexpected types.                 *)
(***************************************************************************)
\* C18: _calculate_confidence, _calculate_relevance and
\* _normalize_from_mapping never raise: a field of an unexpected type (a
\* "properties" that is no mapping, an importance that is no number, an
\* address_line1 or city that is no string, coordinates that are no
\* numbers, a mapping callable that fails on the payload) is treated as the
\* signal being absent.
C18_HelpersNeverRaise ==
    /\ confPc = "done" => ~IsRaise(confidence)
    /\ relPc = "done" => ~IsRaise(relevance)
    /\ mapPc = "done" => ~IsRaise(mapped)

(***************************************************************************)
(* SpecDistance: _calculate_distance_km from a point A to a point B and    *)
(* from B back to A.                                                       *)
(***************************************************************************)
\* Points around latitude 0 and longitude 0, in millionths of a degree:
\* <<latitude, longitude>>.
DistancePoints ==
    {<<Num(lat), Num(lon)>> : lat \in {-4, 0, 2, 9000}, lon \in {-9000, 0, 3}}

CalculateDistance ==
    /\ distPc = "input"
    /\ distKm' = _calculate_distance_km(distArgs.a[1], distArgs.a[2],
                                        distArgs.b[1], distArgs.b[2])
    /\ distPc' = "forth"
    /\ UNCHANGED <<distArgs, distKmBack, strVars, confVars, relVars, mapVars, apiVars, shareVars>>

CalculateDistanceBack ==
    /\ distPc = "forth"
    /\ distKmBack' = _calculate_distance_km(distArgs.b[1], distArgs.b[2],
                                            distArgs.a[1], distArgs.a[2])
    /\ distPc' = "back"
    /\ UNCHANGED <<distArgs, distKm, strVars, confVars, relVars, mapVars, apiVars, shareVars>>

InitDistance ==
    /\ distArgs \in [a : DistancePoints, b : DistancePoints]
    /\ distKm = None
    /\ distKmBack = None
    /\ distPc = "input"
    /\ StrIdle
    /\ ConfIdle
    /\ RelIdle
    /\ MapIdle
    /\ ApiIdle
    /\ ShareIdle

NextDistance == CalculateDistance \/ CalculateDistanceBack

SpecDistance == InitDistance /\ [][NextDistance]_vars

ResolvedImportance ==
    ImportanceOf(confArgs.feature,
                 _extract_importance(confArgs.feature, confArgs.importance_key))

\* The value the heuristic table gives for a record.
TableValue(record) ==
    LET line1 == FieldText(record, "address_line1")
        city == FieldText(record, "city")
        postal == FieldText(record, "postal_code")
    IN  IF line1 # <<>> /\ (\E i \in 1..Len(line1) : line1[i] \in Digits) THEN Tenths(9)
        ELSE IF line1 # <<>> THEN Tenths(7)
        ELSE IF city # <<>> \/ postal # <<>> THEN Tenths(5)
        ELSE Tenths(3)

\* min(importance * importance_multiplier, 1.0) of an importance that is a
\* number or casts to one, None otherwise.
CappedProduct(importance, multiplier) ==
    IF IsDict(importance) \/ IsRaise(Float(importance)) THEN None
    ELSE Num(Min((Float(importance).num * multiplier.num) \div FixedPoint, FixedPoint))

\* C20: with an importance resolved, the confidence is
\* min(importance * importance_multiplier, 1.0) rounded to two decimals
\* exactly when the importance is a number and that value is at least 0.3;
\* when it is below 0.3, or the importance is a mapping or does not cast to
\* a number, the confidence is the heuristic value of the record.
C20_ImportanceOrHeuristic ==
    (/\ confPc = "done"
     /\ ResolvedImportance # None
     /\ ~IsRaise(ResolvedImportance)
     /\ TextualField(confArgs.normalized, "address_line1")) =>
        LET value == CappedProduct(ResolvedImportance, confArgs.importance_multiplier)
        IN  confidence =
                IF value # None /\ 10 * value.num >= 3 * FixedPoint
                THEN Num(Round2(value.num))
                ELSE TableValue(confArgs.normalized)

\* An importance of 0.6 doubled is capped at 1.0 although the record alone
\* would give 0.3.
C20_Witness ==
    /\ confPc = "done"
    /\ ResolvedImportance = Num(6000)
    /\ confArgs.importance_multiplier = Num(2 * FixedPoint)
    /\ TableValue(confArgs.normalized) = Tenths(3)
    /\ TextualField(confArgs.normalized, "address_line1")
    /\ confidence = Num(FixedPoint)

\* An importance of exactly 0.3 is accepted.
C20_AtThreshold ==
    /\ confPc = "done"
    /\ ResolvedImportance = Num(3000)
    /\ confArgs.importance_multiplier = Num(FixedPoint)
    /\ TableValue(confArgs.normalized) = Tenths(9)
    /\ confidence = Tenths(3)

\* An importance of 0.1234 doubled stays below 0.3: the heuristic's 0.9.
C20_BelowThreshold ==
    /\ confPc = "done"
    /\ ResolvedImportance = Num(1234)
    /\ confArgs.importance_multiplier = Num(2 * FixedPoint)
    /\ TableValue(confArgs.normalized) = Tenths(9)
    /\ confidence = Tenths(9)

(***************************************************************************)
(* Claims about where the importance is looked up.                         *)
(***************************************************************************)
\* The value at the path of confArgs.importance_key in the feature: None
\* without a feature, without a key or without a value there.
KeyedValue ==
    LET feature == confArgs.feature
        key == confArgs.importance_key
    IN  IF feature = None \/ key = None THEN None
        ELSE IF key = Str(<<"importance">>)
        THEN (IF "importance" \in DOMAIN feature.dict THEN feature.dict.importance ELSE None)
        ELSE IF /\ "properties" \in DOMAIN feature.dict
                /\ IsDict(feature.dict.properties)
                /\ "importance" \in DOMAIN feature.dict.properties.dict
             THEN feature.dict.properties.dict.importance
             ELSE None

\* properties of the feature is absent or a mapping.
PropertiesMapping ==
    \/ confArgs.feature = None
    \/ "properties" \notin DOMAIN confArgs.feature.dict
    \/ IsDict(confArgs.feature.dict.properties)

\* feature.importance when it is truthy, else feature.properties.importance;
\* looking into properties that are not a mapping raises.
UnkeyedValue ==
    LET feature == confArgs.feature
    IN  IF feature = None \/ feature = EmptyDict THEN None
        ELSE IF "importance" \in DOMAIN feature.dict /\ Truthy(feature.dict.importance)
        THEN feature.dict.importance
        ELSE IF "properties" \notin DOMAIN feature.dict THEN None
        ELSE IF ~IsDict(feature.dict.properties) THEN Raise("AttributeError")
        ELSE IF "importance" \in DOMAIN feature.dict.properties.dict
             THEN feature.dict.properties.dict.importance
             ELSE None

ConfidenceWith(importance) ==
    ConfidenceGiven(importance, confArgs.importance_multiplier,
                    IF IsDict(confArgs.normalized) THEN confArgs.normalized ELSE EmptyDict)

\* C21 as stated: with an importance_key the confidence is computed from
\* the value at that path alone; feature.importance and
\* feature.properties.importance count only without an importance_key.
C21_KeyedPathOnly ==
    (confPc = "done" /\ PropertiesMapping) =>
        confidence = ConfidenceWith(IF confArgs.importance_key # None THEN KeyedValue
                                    ELSE UnkeyedValue)

\* C21 amended: the confidence is computed from the value at the path of the
\* importance_key when there is one; without an importance_key, or with
\* nothing at its path, from feature.importance or, that being falsy, from
\* feature.properties.importance.
C21_KeyedPathThenFallback ==
    confPc = "done" =>
        confidence = ConfidenceWith(IF KeyedValue # None THEN KeyedValue ELSE UnkeyedValue)

\* The path properties.importance holds 0.1777 while feature.importance
\* holds 0.6: the confidence is 0.36, the path's.
C21_Witness ==
    /\ confPc = "done"
    /\ confArgs.importance_key = Str(<<"properties", ".", "importance">>)
    /\ KeyedValue = Num(1777)
    /\ UnkeyedValue = Num(6000)
    /\ confArgs.importance_multiplier = Num(2 * FixedPoint)
    /\ confidence = Num(3600)

\* Nothing at the path properties.importance, 0.6 in feature.importance:
\* the confidence is 1.0 although the record alone would give 0.3.
C21_FallbackWitness ==
    /\ confPc = "done"
    /\ confArgs.importance_key = Str(<<"properties", ".", "importance">>)
    /\ KeyedValue = None
    /\ UnkeyedValue = Num(6000)
    /\ confArgs.importance_multiplier = Num(2 * FixedPoint)
    /\ confArgs.normalized = EmptyDict
    /\ confidence = Num(FixedPoint)

(***************************************************************************)
(* Claims about the distance weight in max_score.                          *)
(***************************************************************************)
\* C22: the distance weight counts in max_score only when the distance was
\* evaluated; with include_distance and the coordinates present but a
\* distance that cannot be computed, the distance term adds 0 to the score
\* and its weight is left out of max_score.
C22_WeightOnlyWhenEvaluable ==
    (relPc = "done" /\ IsNum(relevance)) =>
        relevance =
            Relevance(_calculate_relevance_score(relArgs.query_components,
                                                 relArgs.normalized_result, RelWeights),
                      IF DistanceEvaluated
                      THEN (Weight(RelWeights, "distance") * FixedPoint)
                               \div (RelDistance.num + FixedPoint)
                      ELSE 0,
                      Weight(RelWeights, "street") + Weight(RelWeights, "postcode")
                          + Weight(RelWeights, "city")
                          + IF DistanceEvaluated THEN Weight(RelWeights, "distance") ELSE 0)

(***************************************************************************)
(* Claims about the city weight.                                           *)
(***************************************************************************)
\* The first non-empty of city, village, town, municipality of a mapping,
\* None when there is none.
FirstCityLike(d) ==
    IF Truthy(Get(d, "city")) THEN Get(d, "city")
    ELSE IF Truthy(Get(d, "village")) THEN Get(d, "village")
    ELSE IF Truthy(Get(d, "town")) THEN Get(d, "town")
    ELSE IF Truthy(Get(d, "municipality")) THEN Get(d, "municipality")
    ELSE None

\* Both sides have a city-like value and the normalized values are equal or
\* one lies within the other.
CityWeightDue ==
    LET q == FirstCityLike(relArgs.query_components)
        r == FirstCityLike(relArgs.normalized_result)
    IN  /\ q # None
        /\ r # None
        /\ LET qn == _normalize_string_for_comparison(q).str
               rn == _normalize_string_for_comparison(r).str
           IN  qn = rn \/ IsSubstring(qn, rn) \/ IsSubstring(rn, qn)

FieldWeight(field, key) == IF SameText(field) THEN Weight(RelWeights, key) ELSE 0

\* C23: the city weight is in the score exactly when the query and the
\* result both have a city-like value (the first non-empty of city,
\* village, town, municipality) and the normalized values are equal or one
\* is a substring of the other; never when a side has none.
C23_CityWeight ==
    (relPc = "done" /\ IsNum(relevance)) =>
        relevance =
            Relevance(Num(FieldWeight("address_line1", "street")
                          + FieldWeight("postal_code", "postcode")
                          + IF CityWeightDue THEN Weight(RelWeights, "city") ELSE 0),
                      DistanceScore(DistanceAttempted, RelDistance, RelWeights),
                      RelMaxScore)

\* The query's city "a" lies within the result's city "a b": with nothing
\* else in either and the default weights the relevance is 100.
C23_Witness ==
    /\ relPc = "done"
    /\ relArgs.weights = None
    /\ relArgs.query_components = Dict([city |-> Str(<<"a">>)])
    /\ relArgs.normalized_result = Dict([city |-> Str(<<"a", " ", "b">>)])
    /\ relevance = Hundred

\* The result's village "a" equals the query's city, but its city "b" comes
\* first: no city weight, 5.0 of 6.5.
C23_FirstOfFour ==
    /\ relPc = "done"
    /\ relArgs.weights = None
    /\ relArgs.query_components = Dict([city |-> Str(<<"a">>)])
    /\ relArgs.normalized_result = Dict([city |-> Str(<<"b">>), village |-> Str(<<"a">>)])
    /\ relevance = Num(769200)

\* A query without a city-like value: no city weight whatever the result.
C23_NoQueryCity ==
    /\ relPc = "done"
    /\ relArgs.weights = None
    /\ relArgs.query_components = EmptyDict
    /\ relArgs.normalized_result = Dict([city |-> Str(<<"b">>)])
    /\ relevance = Num(769200)

(***************************************************************************)
(* One instance shared by two callers.  Each caller runs the statements    *)
(* that open every operation (photon.py, lines 103 to 107) one at a time;  *)
(* the statements of the two callers interleave freely unless the callers  *)
(* take turns.  The request is issued at the time the instance stamps.     *)
(***************************************************************************)
Callers == {1, 2}

MaxRequests == 3

CallerIdle == [pc |-> "idle", current_time |-> 0, time_since_last |-> 0, wake |-> 0]

\* The calls under way.
Calling == {c \in Callers : callers[c].pc # "idle"}

\* current_time = time.time(), the first statement of a call.  Callers that
\* take turns start a call only when no call is under way.
ReadTime(c) ==
    /\ callers[c].pc = "idle"
    /\ Len(requested) + Cardinality(Calling) < MaxRequests
    /\ synchronized => Calling = {}
    /\ callers' = [callers EXCEPT ![c] = [pc |-> "subtract", current_time |-> now,
                                          time_since_last |-> 0, wake |-> 0]]
    /\ UNCHANGED <<synchronized, requested, apiVars, strVars, confVars, relVars, mapVars,
                   distVars>>

\* time_since_last = current_time - self._last_request_time
Subtract(c) ==
    /\ callers[c].pc = "subtract"
    /\ callers' = [callers EXCEPT ![c].pc = "test",
                                  ![c].time_since_last =
                                      callers[c].current_time - last_request_time]
    /\ UNCHANGED <<synchronized, requested, apiVars, strVars, confVars, relVars, mapVars,
                   distVars>>

\* if time_since_last < interval: time.sleep(interval - time_since_last)
Sleep(c) ==
    /\ callers[c].pc = "test"
    /\ callers' = IF callers[c].time_since_last < Interval(provider)
                  THEN [callers EXCEPT ![c].pc = "sleeping",
                                       ![c].wake = now + (Interval(provider)
                                                          - callers[c].time_since_last)]
                  ELSE [callers EXCEPT ![c].pc = "stamp"]
    /\ UNCHANGED <<synchronized, requested, apiVars, strVars, confVars, relVars, mapVars,
                   distVars>>

\* time.sleep returns once the time asked for has passed.
Wake(c) ==
    /\ callers[c].pc = "sleeping"
    /\ now >= callers[c].wake
    /\ callers' = [callers EXCEPT ![c].pc = "stamp"]
    /\ UNCHANGED <<synchronized, requested, apiVars, strVars, confVars, relVars, mapVars,
                   distVars>>

\* The stamp taken from the time read before the sleep.
RequestStampingReadTime(c) ==
    /\ callers[c].pc = "stamp"
    /\ last_request_time' = callers[c].current_time
    /\ requested' = Append(requested, now)
    /\ callers' = [callers EXCEPT ![c].pc = "idle"]
    /\ UNCHANGED <<synchronized, provider, credential, vendor, now, slept, call, returned,
                   apiPc, strVars, confVars, relVars, mapVars, distVars>>

\* self._last_request_time = time.time(), then requests.get
Request(c) ==
    /\ callers[c].pc = "stamp"
    /\ last_request_time' = now
    /\ requested' = Append(requested, now)
    /\ callers' = [callers EXCEPT ![c].pc = "idle"]
    /\ UNCHANGED <<synchronized, provider, credential, vendor, now, slept, call, returned,
                   apiPc, strVars, confVars, relVars, mapVars, distVars>>

\* A tenth of a second passes.
Elapse ==
    /\ now < Horizon
    /\ now' = now + 1
    /\ UNCHANGED <<provider, credential, vendor, last_request_time, slept, call, returned,
                   apiPc, shareVars, strVars, confVars, relVars, mapVars, distVars>>

InitShared ==
    /\ synchronized \in BOOLEAN
    /\ callers = [c \in Callers |-> CallerIdle]
    /\ requested = <<>>
    /\ provider \in ImportsRequests
    /\ credential = TRUE
    /\ vendor = None
    /\ now = StartTime
    /\ last_request_time = 0
    /\ slept = 0
    /\ call = None
    /\ returned = None
    /\ apiPc = "idle"
    /\ StrIdle
    /\ ConfIdle
    /\ RelIdle
    /\ MapIdle
    /\ DistIdle

NextShared ==
    \/ \E c \in Callers : ReadTime(c)
    \/ \E c \in Callers : Subtract(c)
    \/ \E c \in Callers : Sleep(c)
    \/ \E c \in Callers : Wake(c)
    \/ \E c \in Callers : Request(c)
    \/ Elapse

SpecShared == InitShared /\ [][NextShared]_vars

\* Two requests of the instance that follow each other are at least the
\* interval apart.
RequestsApart ==
    \A i \in 2..Len(requested) : requested[i] - requested[i - 1] >= Interval(provider)

\* C24: with the instance used by one caller at a time, requests are never
\* less than the minimum interval apart; two callers that do not take turns
\* can both read the same _last_request_time, sleep the same remainder and
\* issue two requests less than the interval apart (the witness).
C24_OneCallerAtATime == synchronized => RequestsApart

\* Without turns: after a first request both callers read the same time and
\* the same _last_request_time, slept the same remainder and woke together,
\* and their two requests are less than the interval apart.
C24_Witness ==
    /\ ~synchronized
    /\ Calling = {}
    /\ Len(requested) = 3
    /\ callers[1].current_time = callers[2].current_time
    /\ callers[1].time_since_last = callers[2].time_since_last
    /\ callers[1].current_time - callers[1].time_since_last = requested[1]
    /\ callers[1].time_since_last < Interval(provider)
    /\ callers[1].wake = callers[2].wake
    /\ callers[1].wake > 0
    /\ requested[3] - requested[2] < Interval(provider)

\* With turns a caller sleeps out the remainder of the interval.
C24_SleptInTurn ==
    /\ synchronized
    /\ Len(requested) = 2
    /\ \E c \in Callers : callers[c].wake > 0 /\ callers[c].pc = "idle"

(***************************************************************************)
(* Claims about the confidence of returned records.                        *)
(***************************************************************************)
\* C25: the confidence of every record an adapter returns lies in [0, 1],
\* the adapters that compute it from the vendor's own quality value (Here:
\* MatchQuality.Relevance / 100) included.
C25_ConfidenceInUnitRange ==
    \A record \in ReturnedRecords :
        HasKey(record, "confidence") =>
            /\ IsNum(Item(record, "confidence"))
            /\ 0 <= Item(record, "confidence").num
            /\ Item(record, "confidence").num <= FixedPoint

(***************************************************************************)
(* Claims about calls that issue no request.                               *)
(***************************************************************************)
\* The call c with outcome r got as far as its requests.get.
RequestSiteReached(c, r) ==
    /\ r.throttled
    /\ c.op = "get_address_by_osm" => OsmRequestReached(provider, c.osm_keys_value)

\* C26: an operation that returns before its HTTP request (credential
\* missing, operation unsupported, osm_keys_value empty or no dict, osm_id
\* or osm_type falsy or no integer, no valid key-value pair) has not slept
\* and leaves _last_request_time as it was.
C26_NoRequestNoThrottle ==
    [][(/\ apiPc = "ready"
        /\ apiPc' = "returned"
        /\ "raw" \in DOMAIN call'
        /\ ~RequestSiteReached(call', returned')) =>
           /\ slept' = 0
           /\ last_request_time' = last_request_time]_vars

(***************************************************************************)
(* Claims about the relevance of search results.                           *)
(***************************************************************************)
\* 5.0 / 6.5 as a percentage with two decimals: the street and postcode
\* weights of the sum of the street, postcode and city weights.
StreetAndPostcodeShare ==
    Round2(MulDiv((Weight(DefaultWeights, "street") + Weight(DefaultWeights, "postcode")) * 100,
                  FixedPoint,
                  Weight(DefaultWeights, "street") + Weight(DefaultWeights, "postcode")
                      + Weight(DefaultWeights, "city")))

\* The records search_addresses returned.
SearchRecords ==
    IF apiPc = "returned" /\ "raw" \in DOMAIN call /\ call.op = "search_addresses"
    THEN ReturnedRecords ELSE {}

\* C27: the relevance of a record returned by search_addresses never
\* exceeds 76.92, the share of the street and postcode weights in 6.5: the
\* query has no city, so the city weight is never in the score, and no
\* distance is evaluated.  No search result has relevance 100.
C27_SearchRelevanceCeiling ==
    \A record \in SearchRecords :
        /\ IsNum(Item(record, "relevance"))
        /\ Item(record, "relevance").num <= StreetAndPostcodeShare
        /\ StreetAndPostcodeShare = 769200

\* A search result at the ceiling: street and postcode both count.
C27_Witness ==
    \E record \in SearchRecords : Item(record, "relevance") = Num(769200)

\* A search result whose street does not match: 2.0 / 6.5.
C27_PostcodeOnly ==
    \E record \in SearchRecords : Item(record, "relevance") = Num(307700)

(***************************************************************************)
(* Claims about the proximity argument.                                    *)
(***************************************************************************)
\* The search that has returned, made again with the proximity p: same
\* instance, same query, same answer of the vendor.
SearchAgainWith(p) ==
    search_addresses(provider, credential, call.query, call.raw, p, vendor)

SearchReturned == apiPc = "returned" /\ "raw" \in DOMAIN call /\ call.op = "search_addresses"

\* Two outcomes that differ in params at most.
SameButParams(a, b) ==
    a.result = b.result /\ a.http = b.http /\ a.throttled = b.throttled

\* C28: what search_addresses returns for a proximity (one that parses, one
\* that does not, none), the relevance and confidence of its records
\* included, is what the same search returns without proximity, so any two
\* proximities give the same records: the proximity shows in the
\* parameters of the request only.
C28_ProximityOnlyInParams ==
    SearchReturned => SameButParams(SearchAgainWith(None), returned)

\* A search near "1,3" on Photon returned records; its request carried lat
\* and lon, which the request of the same search without proximity does not.
C28_Witness ==
    /\ SearchReturned
    /\ provider = "photon"
    /\ call.proximity = Str(<<"1", ",", "3">>)
    /\ ReturnedRecords # {}
    /\ \A record \in ReturnedRecords :
           HasKey(record, "relevance") /\ HasKey(record, "confidence")
    /\ returned.params = Dict([lat |-> Num(FixedPoint), lon |-> Num(3 * FixedPoint)])
    /\ SearchAgainWith(None).params = EmptyDict
    /\ SearchAgainWith(None).result = returned.result

\* A proximity that does not parse: the request is sent without it.
C28_Unparsed ==
    /\ SearchReturned
    /\ call.proximity = Str(<<"1", ",", "a">>)
    /\ returned.http
    /\ returned.params = EmptyDict
    /\ ReturnedRecords # {}

(***************************************************************************)
(* Claims about items that fail.                                           *)
(***************************************************************************)
\* The adapters whose search_addresses guards each item with its own try.
PerItemAdapters == {"google_maps", "here", "opencage", "geocode_earth"}

\* A search with raw=False on one of these adapters, its credential set.
ItemwiseSearchReturned ==
    /\ SearchReturned
    /\ ~call.raw
    /\ provider \in PerItemAdapters
    /\ credential

\* The records of the items that did not raise, in the vendor's order.
NonFailing(records) == SelectSeq(records, LAMBDA r : ~IsRaise(r))

\* C29: search_addresses (raw=False) of Google Maps, Here, OpenCage and
\* Geocode Earth returns a list; answered with items, the list holds one
\* record per item whose extraction and scoring did not raise, in the
\* vendor's order.
C29_FailingItemsSkipped ==
    ItemwiseSearchReturned =>
        /\ IsList(returned.result)
        /\ (AnsweredWithItems /\ ~HasError(vendor)) =>
               returned.result =
                   List(NonFailing(Records(provider, "search_addresses", VendorItems.list,
                                           call.query)))

(***************************************************************************)
(* Claims about the coordinates of a reverse geocoding.                    *)
(***************************************************************************)
\* The adapters whose reverse_geocode stores the caller's coordinates.
CallerCoordinateAdapters == {"geoapify", "google_maps", "here", "opencage", "geocode_earth"}

ReverseReturned ==
    /\ OperationReturned
    /\ call.op = "reverse_geocode"
    /\ ~call.raw
    /\ provider \in CallerCoordinateAdapters
    /\ credential

\* C30: reverse_geocode (raw=False) of Geoapify, Google Maps, Here, OpenCage
\* and Geocode Earth returns a record or None; a record carries the
\* latitude and longitude the caller passed, not the matched feature's, and
\* an answer without a feature gives None.
C30_CallerCoordinates ==
    ReverseReturned =>
        /\ ~IsRaise(returned.result)
        /\ \A record \in ReturnedRecords :
               /\ Item(record, "latitude") = call.latitude
               /\ Item(record, "longitude") = call.longitude
        /\ (returned.http /\ ~IsRaise(vendor) /\ VendorItems = List(<<>>)) =>
               returned.result = None

====
